---- MODULE Spec2Model ----
(***************************************************************************)
(* House Life Notes: the backing store (tables with a deleted_at marker,   *)
(* the SECURITY DEFINER delete/restore procedures), the record editors'    *)
(* store requests, the cost dashboard (CostDashboard.loadCosts and the     *)
(* figures its render derives), and the Dashboard shell with the house     *)
(* form (handleNavigate, saveHouse).                                       *)
(*                                                                         *)
(* Three specifications share the variables: SpecCost (one cost dashboard  *)
(* over a store that other sessions change), SpecLoad (one cost dashboard  *)
(* over every store of a pool of rows, with failing reads) and SpecDash    *)
(* (the Dashboard shell, the house form and the cost dashboards it         *)
(* mounts).                                                                *)
(*                                                                         *)
(* Amounts are whole currency units (the columns are numeric(12,2); the    *)
(* JavaScript sums are modelled on integers).  A nullable column or        *)
(* variable holds None (SQL NULL / JS null) or Some(v).                    *)
(***************************************************************************)
EXTENDS Integers, Sequences, FiniteSets, TLC

VARIABLES
    houses,          \* table houses
    appliances,      \* table interior_appliances
    repairs,         \* table appliance_repairs
    attachments,     \* table appliance_attachments
    features,        \* table exterior_features
    maintenance,     \* table exterior_maintenance
    rowsInserted,    \* rows inserted so far (ids are never reused)
    houseId,         \* Dashboard state houseId, the prop of CostDashboard
    cd,              \* the mounted CostDashboard instance's state
    calls,           \* the loadCosts calls started so far, in start order
    failedReads,     \* reads that failed so far
    currentYear,     \* new Date().getFullYear()
    mutated,         \* ghost: the store changed since the last loadCosts call began
    dash,            \* Dashboard state other than houseId
    hd,              \* the HouseDetails instance of the house view
    saves,           \* the saveHouse calls started so far, in start order
    rooms,           \* table rooms
    users,           \* table auth.users
    account,         \* the AccountManagement page's delete-account state
    uploadedFiles,   \* InteriorAppliances state uploadedFiles, the pending attachments
    fileUpload,      \* the FileUpload instance: its error and its handleFileSelect calls
    handed,          \* ghost: the ids of the files handed to onFilesSelected and
                     \* not removed by the user or saved since
    form,            \* the record form that is open, with its required fields
    issued,          \* ghost: the inserts and updates the forms issued
    storage,         \* localStorage item hideDeleteConfirmation
    modal,           \* the editor's deleteConfirmation and the modal's dontShowAgain
    applied,         \* the last call of a library function: its arguments and result
    lists,           \* the rows the editors show: their useState lists, by item type
    deleting,        \* the delete handlers that await the store's answer
    roomEditor       \* HouseDetails state rooms, editingRoomId and editedRoom

vars == <<houses, appliances, repairs, attachments, features, maintenance,
          rowsInserted, houseId, cd, calls, failedReads, currentYear, mutated,
          dash, hd, saves, rooms, users, account,
          uploadedFiles, fileUpload, handed, form, issued, storage, modal,
          applied, lists, deleting, roomEditor>>

\* The library call, the editors' lists and their delete handlers.
viewVars == <<applied, lists, deleting, roomEditor>>

\* The state the editors and the account page add to the cost dashboard's.
editorVars == <<rooms, users, account, uploadedFiles, fileUpload, handed,
                form, issued, storage, modal, viewVars>>

\* The state of the editor pages other than the account page.
pageVars == <<uploadedFiles, fileUpload, handed, form, issued, storage, modal,
              viewVars>>

uploadVars == <<uploadedFiles, fileUpload, handed>>

confirmVars == <<storage, modal>>

uiVars == <<dash, hd, saves>>

storeVars == <<houses, appliances, repairs, attachments, features, maintenance,
               rowsInserted>>

-----------------------------------------------------------------------------
(* Bounds of the model *)

\* Rows inserted into the child tables in one behaviour.
MaxRows == 2

\* saveHouse calls started in one behaviour.
MaxSaves == 2

\* loadCosts calls started in one behaviour.
MaxCalls == 2

\* The largest value dashboardRefreshKey takes.
MaxRefreshKey == 1

\* Reads that fail (error result or rejection) in one behaviour.
MaxFailedReads == 1

\* delete_user_account calls of the account page that the model follows.
MaxAccountCalls == 2

\* The maxFiles prop of FileUpload.  The appliance form passes 10; the model
\* follows the component under a smaller cap.
maxFiles == 2

\* Files of one selection (one FileList).
MaxPick == 2

\* handleFileSelect calls in one behaviour.
MaxSelections == 2

\* The maxSizeMB prop of FileUpload, as the appliance form passes it.
maxSizeMB == 5

-----------------------------------------------------------------------------
(* Values *)

None == <<>>

Some(v) == <<v>>

Users == {"U1", "U2"}

\* The signed-in user of the browser session that shows the dashboard.
SessionUser == "U1"

\* houseId === null in Dashboard / CostDashboard.
NoHouse == "none"

\* Rows inserted into the session's house: a cost typed into the form, or a
\* cost column left NULL.
ApplianceInputs ==
    { [house_id |-> "H1", purchase_cost |-> Some(1200), installation_cost |-> Some(300)],
      [house_id |-> "H1", purchase_cost |-> None,       installation_cost |-> None] }

RepairCosts == {Some(150), None}

FeatureInputs ==
    { [house_id |-> "H1", build_cost |-> Some(5000)],
      [house_id |-> "H1", build_cost |-> None] }

MaintenanceInputs ==
    { [house_id |-> "H1", cost |-> Some(800)],
      [house_id |-> "H1", cost |-> None] }

-----------------------------------------------------------------------------
(* The backing store *)

\* houses.user_id = auth.uid() for the house h (the EXISTS clause of the RLS
\* policies and of the SECURITY DEFINER procedures).
OwnsHouse(u, h) == \E x \in houses : x.id = h /\ x.user_id = u

\* EXISTS (interior_appliances ia JOIN houses h ... WHERE ia.id = a AND h.user_id = u)
OwnsAppliance(u, a) == \E x \in appliances : x.id = a /\ OwnsHouse(u, x.house_id)

NextId == rowsInserted + 1

\* A read of the dashboard is still to come.  The model stops following the
\* store once the last read of the last loadCosts call is answered: a later
\* request changes nothing the dashboard shows.
ReadsToCome == cd.effect \/ \E c \in 1..Len(calls) : calls[c].pc # "done"

\* Every store request below is one committed statement or procedure call.
\* A request that changes no row is not a step of the model.
Changed ==
    <<houses, appliances, repairs, attachments, features, maintenance>>' #
    <<houses, appliances, repairs, attachments, features, maintenance>>

\* saveAppliance, new appliance: insert into interior_appliances, allowed by
\* the policy "Users can insert own appliances".
InsertAppliance(u, in) ==
    /\ ReadsToCome
    /\ rowsInserted < MaxRows
    /\ OwnsHouse(u, in.house_id)
    /\ appliances' = appliances \cup
            {[id |-> NextId, house_id |-> in.house_id,
              purchase_cost |-> in.purchase_cost,
              installation_cost |-> in.installation_cost, deleted |-> FALSE]}
    /\ rowsInserted' = NextId
    /\ mutated' = (calls # <<>>)
    /\ UNCHANGED <<uiVars, houses, repairs, attachments, features, maintenance,
                   houseId, cd, calls, failedReads, currentYear, editorVars>>

\* addRepair: insert into appliance_repairs; the policy "Users can insert own
\* repairs" asks only that the appliance exists in a house of the user (it does
\* not look at the appliance's deleted_at).
InsertRepair(u, a, cost) ==
    /\ ReadsToCome
    /\ rowsInserted < MaxRows
    /\ OwnsAppliance(u, a)
    /\ repairs' = repairs \cup
            {[id |-> NextId, appliance_id |-> a, repair_cost |-> cost, deleted |-> FALSE]}
    /\ rowsInserted' = NextId
    /\ mutated' = (calls # <<>>)
    /\ UNCHANGED <<uiVars, houses, appliances, attachments, features, maintenance,
                   houseId, cd, calls, failedReads, currentYear, editorVars>>

\* saveFeature, new feature: insert into exterior_features.
InsertFeature(u, in) ==
    /\ ReadsToCome
    /\ rowsInserted < MaxRows
    /\ OwnsHouse(u, in.house_id)
    /\ features' = features \cup
            {[id |-> NextId, house_id |-> in.house_id,
              build_cost |-> in.build_cost, deleted |-> FALSE]}
    /\ rowsInserted' = NextId
    /\ mutated' = (calls # <<>>)
    /\ UNCHANGED <<uiVars, houses, appliances, repairs, attachments, maintenance,
                   houseId, cd, calls, failedReads, currentYear, editorVars>>

\* saveMaintenance: insert into exterior_maintenance.
InsertMaintenance(u, in) ==
    /\ ReadsToCome
    /\ rowsInserted < MaxRows
    /\ OwnsHouse(u, in.house_id)
    /\ maintenance' = maintenance \cup
            {[id |-> NextId, house_id |-> in.house_id,
              cost |-> in.cost, deleted |-> FALSE]}
    /\ rowsInserted' = NextId
    /\ mutated' = (calls # <<>>)
    /\ UNCHANGED <<uiVars, houses, appliances, repairs, attachments, features,
                   houseId, cd, calls, failedReads, currentYear, editorVars>>

\* deleteRepair: supabase.from('appliance_repairs').delete().eq('id', r), under
\* the policy "Users can delete own repairs".  The row is removed.
DeleteRepair(u, r) ==
    /\ ReadsToCome
    /\ repairs' = {x \in repairs : ~(x.id = r /\ OwnsAppliance(u, x.appliance_id))}
    /\ mutated' = (calls # <<>>)
    /\ UNCHANGED <<uiVars, houses, appliances, attachments, features, maintenance,
                   rowsInserted, houseId, cd, calls, failedReads, currentYear, editorVars>>
    /\ Changed

\* deleteFeature: supabase.from('exterior_features').delete().eq('id', f).
DeleteFeature(u, f) ==
    /\ ReadsToCome
    /\ features' = {x \in features : ~(x.id = f /\ OwnsHouse(u, x.house_id))}
    /\ mutated' = (calls # <<>>)
    /\ UNCHANGED <<uiVars, houses, appliances, repairs, attachments, maintenance,
                   rowsInserted, houseId, cd, calls, failedReads, currentYear, editorVars>>
    /\ Changed

\* deleteMaintenance: supabase.from('exterior_maintenance').delete().eq('id', m).
DeleteMaintenance(u, m) ==
    /\ ReadsToCome
    /\ maintenance' = {x \in maintenance : ~(x.id = m /\ OwnsHouse(u, x.house_id))}
    /\ mutated' = (calls # <<>>)
    /\ UNCHANGED <<uiVars, houses, appliances, repairs, attachments, features,
                   rowsInserted, houseId, cd, calls, failedReads, currentYear, editorVars>>
    /\ Changed

\* UPDATE t SET deleted_at = v WHERE <the row is in hits>: deleted is TRUE for
\* a deleted_at that is set (now()), FALSE for NULL.
SetDeleted(t, hits, v) ==
    {IF x \in hits THEN [x EXCEPT !.deleted = v] ELSE x : x \in t}

\* soft_delete_appliance(appliance_id) called with auth.uid() = u.  The first
\* UPDATE is guarded by the ownership EXISTS; the two cascading UPDATEs are not.
soft_delete_appliance(u, a) ==
    /\ ReadsToCome
    /\ appliances' = SetDeleted(appliances,
            {x \in appliances : x.id = a /\ ~x.deleted /\ OwnsHouse(u, x.house_id)}, TRUE)
    /\ repairs' = SetDeleted(repairs,
            {x \in repairs : x.appliance_id = a /\ ~x.deleted}, TRUE)
    /\ attachments' = SetDeleted(attachments,
            {x \in attachments : x.appliance_id = a /\ ~x.deleted}, TRUE)
    /\ mutated' = (calls # <<>>)
    /\ UNCHANGED <<uiVars, houses, features, maintenance,
                   rowsInserted, houseId, cd, calls, failedReads, currentYear, editorVars>>
    /\ Changed

\* restore_appliance(appliance_id) called with auth.uid() = u.
restore_appliance(u, a) ==
    /\ ReadsToCome
    /\ appliances' = SetDeleted(appliances,
            {x \in appliances : x.id = a /\ x.deleted /\ OwnsHouse(u, x.house_id)}, FALSE)
    /\ repairs' = SetDeleted(repairs,
            {x \in repairs : x.appliance_id = a /\ x.deleted}, FALSE)
    /\ attachments' = SetDeleted(attachments,
            {x \in attachments : x.appliance_id = a /\ x.deleted}, FALSE)
    /\ mutated' = (calls # <<>>)
    /\ UNCHANGED <<uiVars, houses, features, maintenance,
                   rowsInserted, houseId, cd, calls, failedReads, currentYear, editorVars>>
    /\ Changed

\* A permanent delete that leaves the attachments of the appliance.
permanent_delete_keeping_attachments(u, a) ==
    /\ ReadsToCome
    /\ repairs' = {x \in repairs : ~(x.appliance_id = a /\ OwnsAppliance(u, a))}
    /\ appliances' = {x \in appliances : ~(x.id = a /\ OwnsHouse(u, x.house_id))}
    /\ mutated' = (calls # <<>>)
    /\ UNCHANGED <<uiVars, houses, attachments, features, maintenance,
                   rowsInserted, houseId, cd, calls, failedReads, currentYear, editorVars>>
    /\ Changed

\* permanent_delete_appliance(appliance_id) called with auth.uid() = u
\* (deleteAppliance in the appliance editor calls it).  All three DELETEs are
\* guarded by the ownership EXISTS.
permanent_delete_appliance(u, a) ==
    /\ ReadsToCome
    /\ repairs' = {x \in repairs : ~(x.appliance_id = a /\ OwnsAppliance(u, a))}
    /\ attachments' = {x \in attachments : ~(x.appliance_id = a /\ OwnsAppliance(u, a))}
    /\ appliances' = {x \in appliances : ~(x.id = a /\ OwnsHouse(u, x.house_id))}
    /\ mutated' = (calls # <<>>)
    /\ UNCHANGED <<uiVars, houses, features, maintenance,
                   rowsInserted, houseId, cd, calls, failedReads, currentYear, editorVars>>
    /\ Changed

\* soft_delete_exterior_feature(feature_id) called with auth.uid() = u.
soft_delete_exterior_feature(u, f) ==
    /\ ReadsToCome
    /\ features' = SetDeleted(features,
            {x \in features : x.id = f /\ ~x.deleted /\ OwnsHouse(u, x.house_id)}, TRUE)
    /\ mutated' = (calls # <<>>)
    /\ UNCHANGED <<uiVars, houses, appliances, repairs, attachments, maintenance,
                   rowsInserted, houseId, cd, calls, failedReads, currentYear, editorVars>>
    /\ Changed

\* restore_exterior_feature(feature_id) called with auth.uid() = u.
restore_exterior_feature(u, f) ==
    /\ ReadsToCome
    /\ features' = SetDeleted(features,
            {x \in features : x.id = f /\ x.deleted /\ OwnsHouse(u, x.house_id)}, FALSE)
    /\ mutated' = (calls # <<>>)
    /\ UNCHANGED <<uiVars, houses, appliances, repairs, attachments, maintenance,
                   rowsInserted, houseId, cd, calls, failedReads, currentYear, editorVars>>
    /\ Changed

\* soft_delete_exterior_maintenance(maintenance_id) called with auth.uid() = u.
soft_delete_exterior_maintenance(u, m) ==
    /\ ReadsToCome
    /\ maintenance' = SetDeleted(maintenance,
            {x \in maintenance : x.id = m /\ ~x.deleted /\ OwnsHouse(u, x.house_id)}, TRUE)
    /\ mutated' = (calls # <<>>)
    /\ UNCHANGED <<uiVars, houses, appliances, repairs, attachments, features,
                   rowsInserted, houseId, cd, calls, failedReads, currentYear, editorVars>>
    /\ Changed

\* restore_exterior_maintenance(maintenance_id) called with auth.uid() = u.
restore_exterior_maintenance(u, m) ==
    /\ ReadsToCome
    /\ maintenance' = SetDeleted(maintenance,
            {x \in maintenance : x.id = m /\ x.deleted /\ OwnsHouse(u, x.house_id)}, FALSE)
    /\ mutated' = (calls # <<>>)
    /\ UNCHANGED <<uiVars, houses, appliances, repairs, attachments, features,
                   rowsInserted, houseId, cd, calls, failedReads, currentYear, editorVars>>
    /\ Changed

\* deleteAttachment: supabase.from('appliance_attachments').delete().eq('id', t),
\* under the policy "Users can delete own appliance attachments".
DeleteAttachment(u, t) ==
    /\ ReadsToCome
    /\ attachments' = {x \in attachments : ~(x.id = t /\ OwnsAppliance(u, x.appliance_id))}
    /\ mutated' = (calls # <<>>)
    /\ UNCHANGED <<uiVars, houses, appliances, repairs, features, maintenance,
                   rowsInserted, houseId, cd, calls, failedReads, currentYear, editorVars>>
    /\ Changed

\* What the room procedures leave alone.
RoomsOnly ==
    /\ rooms' # rooms
    /\ UNCHANGED <<uiVars, storeVars, houseId, cd, calls, failedReads, currentYear,
                   mutated, users, account, pageVars>>

\* soft_delete_room(room_id) called with auth.uid() = u.
soft_delete_room(u, r) ==
    /\ rooms' = SetDeleted(rooms,
            {x \in rooms : x.id = r /\ ~x.deleted /\ OwnsHouse(u, x.house_id)}, TRUE)
    /\ RoomsOnly

\* restore_room(room_id) called with auth.uid() = u.
restore_room(u, r) ==
    /\ rooms' = SetDeleted(rooms,
            {x \in rooms : x.id = r /\ x.deleted /\ OwnsHouse(u, x.house_id)}, FALSE)
    /\ RoomsOnly

\* permanent_delete_room(room_id) called with auth.uid() = u (deleteRoom in
\* the house form calls it).
permanent_delete_room(u, r) ==
    /\ rooms' = {x \in rooms : ~(x.id = r /\ OwnsHouse(u, x.house_id))}
    /\ RoomsOnly

\* The tables t after soft_delete_appliance(a) with auth.uid() = u: the three
\* UPDATEs of the procedure.
SoftDeletedAppliance(t, u, a) ==
    [t EXCEPT
        !.appliances = SetDeleted(@,
            {x \in @ : x.id = a /\ ~x.deleted /\ OwnsHouse(u, x.house_id)}, TRUE),
        !.repairs = SetDeleted(@, {x \in @ : x.appliance_id = a /\ ~x.deleted}, TRUE),
        !.attachments = SetDeleted(@, {x \in @ : x.appliance_id = a /\ ~x.deleted}, TRUE)]

\* The tables t after restore_appliance(a) with auth.uid() = u.
RestoredAppliance(t, u, a) ==
    [t EXCEPT
        !.appliances = SetDeleted(@,
            {x \in @ : x.id = a /\ x.deleted /\ OwnsHouse(u, x.house_id)}, FALSE),
        !.repairs = SetDeleted(@, {x \in @ : x.appliance_id = a /\ x.deleted}, FALSE),
        !.attachments = SetDeleted(@, {x \in @ : x.appliance_id = a /\ x.deleted}, FALSE)]

\* The tables t after soft_delete_room(r) with auth.uid() = u.
SoftDeletedRoom(t, u, r) ==
    [t EXCEPT !.rooms = SetDeleted(@,
            {x \in @ : x.id = r /\ ~x.deleted /\ OwnsHouse(u, x.house_id)}, TRUE)]

\* The relations of the schema: the seven tables of the base migration,
\* appliance_attachments, and auth.users of the platform.
Relations ==
    {"houses", "rooms", "interior_appliances", "appliance_repairs",
     "exterior_features", "property_details", "exterior_maintenance",
     "appliance_attachments", "auth.users"}

\* The relations the DELETE statements of delete_user_account name, in the
\* order of the statements.
AccountStatements ==
    <<"exterior_items", "appliances", "maintenance_records", "cost_records",
      "houses", "auth.users">>

\* The tables as one record.
Tables ==
    [houses |-> houses, rooms |-> rooms, appliances |-> appliances,
     repairs |-> repairs, attachments |-> attachments, features |-> features,
     maintenance |-> maintenance, users |-> users]

\* DELETE FROM houses WHERE user_id = u with the ON DELETE CASCADE of the
\* foreign keys, then DELETE FROM auth.users WHERE id = u.
WithoutUser(u) ==
    LET hs == {x.id : x \in {y \in houses : y.user_id = u}}
        as == {x.id : x \in {y \in appliances : y.house_id \in hs}}
    IN  [houses |-> {x \in houses : x.user_id # u},
         rooms |-> {x \in rooms : x.house_id \notin hs},
         appliances |-> {x \in appliances : x.house_id \notin hs},
         repairs |-> {x \in repairs : x.appliance_id \notin as},
         attachments |-> {x \in attachments : x.appliance_id \notin as},
         features |-> {x \in features : x.house_id \notin hs},
         maintenance |-> {x \in maintenance : x.house_id \notin hs},
         users |-> users \ {u}]

\* delete_user_account() called with auth.uid() = uid (None: no authenticated
\* user): the error it raises (None: it returned) and the tables after it.
\* The procedure is one transaction: RAISE EXCEPTION for no user, and a
\* statement on a relation that does not exist raises too; a raise rolls the
\* statements before it back.
delete_user_account(uid) ==
    IF uid = None
      THEN [error |-> Some("Not authenticated"), tables |-> Tables]
    ELSE IF \E i \in 1..Len(AccountStatements) : AccountStatements[i] \notin Relations
      THEN [error |-> Some("relation does not exist"), tables |-> Tables]
    ELSE [error |-> None, tables |-> WithoutUser(uid[1])]

\* The tables become t.
Commit(t) ==
    /\ houses' = t.houses
    /\ rooms' = t.rooms
    /\ appliances' = t.appliances
    /\ repairs' = t.repairs
    /\ attachments' = t.attachments
    /\ features' = t.features
    /\ maintenance' = t.maintenance
    /\ users' = t.users

\* AccountManagement as mounted: the four useState of the delete section, and
\* the delete_user_account calls of the page so far with the last answer.
ConfirmTexts == {"", "delete", "DELETE"}

NewAccountPage ==
    [showDeleteConfirm |-> FALSE, deleteConfirmText |-> "",
     isDeletingAccount |-> FALSE, deleteError |-> "",
     signedOut |-> FALSE, rpcCalls |-> 0]

-----------------------------------------------------------------------------
(* The record forms of the editors *)

\* The values of the FileUpload state error ('' when none is shown).
NoError == ""
TooManyFiles == "Maximum files allowed"
FileTooLarge == "File exceeds limit"
FailedToUpload == "Failed to upload"

\* The FileUpload of the add-appliance form as the form opens (showAddForm):
\* mounted, no error, no handleFileSelect call yet.
NewFileUpload == [mounted |-> TRUE, error |-> NoError, selections |-> <<>>, picked |-> 0]


\* The forms: add or edit an exterior feature, add a maintenance record, add
\* a repair, add or edit an appliance, add a room, edit a room.
FormKinds == {"feature", "maintenance", "repair", "appliance", "room", "editRoom"}

\* The fields of a form that its save button looks at.
RequiredFields(kind) ==
    CASE kind = "feature" -> {"feature_type", "description"}
      [] kind = "maintenance" -> {"maintenance_type", "maintenance_date", "description"}
      [] kind = "repair" -> {"repair_date", "description"}
      [] kind = "appliance" -> {"appliance_type"}
      [] kind = "room" -> {"room_type"}
      [] kind = "editRoom" -> {"room_type"}
      [] OTHER -> {}

\* The table a form saves to.
TableOf(kind) ==
    CASE kind = "feature" -> "exterior_features"
      [] kind = "maintenance" -> "exterior_maintenance"
      [] kind = "repair" -> "appliance_repairs"
      [] kind = "appliance" -> "interior_appliances"
      [] OTHER -> "rooms"

\* What an input's onChange stores: e.target.value, the empty string when the
\* input is cleared.
TypedValues == {Some(""), Some("x")}

\* No form is open.
NoForm == [kind |-> "none", editing |-> FALSE, fields |-> [f \in {} |-> None]]

\* A form as it opens.  A new feature, maintenance record, repair or
\* appliance starts without the fields (useState({ build_cost: 0 }) and the
\* like), a new room with room_type ''; a form that edits a row starts with
\* the row's values.
NewForm(kind, editing) ==
    [kind |-> kind, editing |-> editing,
     fields |-> [f \in RequiredFields(kind) |->
                    IF editing \/ kind = "editRoom" THEN Some("x")
                    ELSE IF kind = "room" THEN Some("")
                    ELSE None]]

\* !value of a string field: undefined or ''.
Missing(v) == v = None \/ v[1] = ""

\* A save button that looks at the type field only.
DisabledOnTypeOnly(f) ==
    CASE f.kind = "feature" -> Missing(f.fields["feature_type"])
      [] f.kind = "maintenance" -> Missing(f.fields["maintenance_type"])
      [] f.kind = "repair" -> FALSE
      [] f.kind = "appliance" -> Missing(f.fields["appliance_type"])
      [] f.kind = "room" -> Missing(f.fields["room_type"])
      [] f.kind = "editRoom" -> Missing(f.fields["room_type"])
      [] OTHER -> TRUE

\* The disabled attribute of the form's save button.
Disabled(f) ==
    CASE f.kind = "feature" ->
            Missing(f.fields["feature_type"]) \/ Missing(f.fields["description"])
      [] f.kind = "maintenance" ->
            \/ Missing(f.fields["maintenance_type"])
            \/ Missing(f.fields["maintenance_date"])
            \/ Missing(f.fields["description"])
      [] f.kind = "repair" ->
            Missing(f.fields["repair_date"]) \/ Missing(f.fields["description"])
      [] f.kind = "appliance" -> Missing(f.fields["appliance_type"])
      [] f.kind = "room" -> Missing(f.fields["room_type"])
      [] f.kind = "editRoom" -> Missing(f.fields["room_type"])
      [] OTHER -> TRUE

\* supabase.from(table).insert(...) or .update(...) with the form's values.
Issue(table, op) ==
    issued' = issued \cup {[table |-> table, op |-> op, fields |-> form.fields]}

\* What the steps of a form leave alone besides the tables.
FormOnly ==
    UNCHANGED <<uiVars, houseId, cd, calls, failedReads, currentYear, mutated,
                users, account, uploadedFiles, handed, confirmVars, viewVars>>

\* A form is opened: "Add ...", or the edit button of a row (startEdit,
\* startEditFeature, startEditRoom).  The add-appliance form mounts a
\* FileUpload.
OpenForm(kind, editing) ==
    /\ form.kind = "none"
    /\ editing => kind \in {"feature", "appliance"}
    /\ form' = NewForm(kind, editing)
    /\ fileUpload' = IF kind = "appliance"
                       THEN [fileUpload EXCEPT !.mounted = TRUE, !.error = NoError]
                       ELSE fileUpload
    /\ UNCHANGED <<storeVars, rooms, issued>>
    /\ FormOnly

\* Cancel.
CloseForm ==
    /\ form.kind # "none"
    /\ form' = NoForm
    /\ fileUpload' = [fileUpload EXCEPT !.mounted = FALSE]
    /\ UNCHANGED <<storeVars, rooms, issued>>
    /\ FormOnly

\* onChange of the input of a field.
SetField(f, v) ==
    /\ f \in DOMAIN form.fields
    /\ form.fields[f] # v
    /\ form' = [form EXCEPT !.fields[f] = v]
    /\ UNCHANGED <<storeVars, rooms, issued, fileUpload>>
    /\ FormOnly

\* saveFeature, clicked on the enabled button: update of the edited feature,
\* or insert (build_cost 0 of the new form).
saveFeature ==
    /\ form.kind = "feature"
    /\ ~Disabled(form)
    /\ IF form.editing
         THEN /\ Issue("exterior_features", "update")
              /\ UNCHANGED <<features, rowsInserted>>
         ELSE /\ rowsInserted < MaxRows
              /\ Issue("exterior_features", "insert")
              /\ features' = features \cup
                    {[id |-> NextId, house_id |-> houseId, build_cost |-> Some(0),
                      deleted |-> FALSE]}
              /\ rowsInserted' = NextId
    /\ form' = NoForm
    /\ UNCHANGED <<houses, appliances, repairs, attachments, maintenance, rooms, fileUpload>>
    /\ FormOnly

\* saveMaintenance, clicked on the enabled button.
saveMaintenance ==
    /\ form.kind = "maintenance"
    /\ ~Disabled(form)
    /\ rowsInserted < MaxRows
    /\ Issue("exterior_maintenance", "insert")
    /\ maintenance' = maintenance \cup
            {[id |-> NextId, house_id |-> houseId, cost |-> Some(0), deleted |-> FALSE]}
    /\ rowsInserted' = NextId
    /\ form' = NoForm
    /\ UNCHANGED <<houses, appliances, repairs, attachments, features, rooms, fileUpload>>
    /\ FormOnly

\* addRepair(appliance.id), clicked on the enabled button.
addRepair(a) ==
    /\ form.kind = "repair"
    /\ ~Disabled(form)
    /\ rowsInserted < MaxRows
    /\ OwnsAppliance(SessionUser, a)
    /\ Issue("appliance_repairs", "insert")
    /\ repairs' = repairs \cup
            {[id |-> NextId, appliance_id |-> a, repair_cost |-> Some(0), deleted |-> FALSE]}
    /\ rowsInserted' = NextId
    /\ form' = NoForm
    /\ UNCHANGED <<houses, appliances, attachments, features, maintenance, rooms, fileUpload>>
    /\ FormOnly

\* saveAppliance of an edited appliance, clicked on the enabled button.
updateAppliance ==
    /\ form.kind = "appliance"
    /\ form.editing
    /\ ~Disabled(form)
    /\ uploadedFiles = <<>>
    /\ Issue("interior_appliances", "update")
    /\ form' = NoForm
    /\ fileUpload' = [fileUpload EXCEPT !.mounted = FALSE]
    /\ UNCHANGED <<storeVars, rooms>>
    /\ FormOnly

\* addRoom: the button is enabled, and the handler returns without a house or
\* a room type.
addRoom ==
    /\ form.kind = "room"
    /\ ~Disabled(form)
    /\ ~(houseId = NoHouse \/ Missing(form.fields["room_type"]))
    /\ rowsInserted < MaxRows
    /\ Issue("rooms", "insert")
    /\ rooms' = rooms \cup {[id |-> NextId, house_id |-> houseId, deleted |-> FALSE]}
    /\ rowsInserted' = NextId
    /\ form' = NewForm("room", FALSE)
    /\ UNCHANGED <<houses, appliances, repairs, attachments, features, maintenance,
                   fileUpload>>
    /\ FormOnly

\* saveEditedRoom: the button is enabled, and the handler returns without a
\* room type.
saveEditedRoom ==
    /\ form.kind = "editRoom"
    /\ ~Disabled(form)
    /\ ~Missing(form.fields["room_type"])
    /\ Issue("rooms", "update")
    /\ form' = NoForm
    /\ UNCHANGED <<storeVars, rooms, fileUpload>>
    /\ FormOnly

\* The deleteConfirmation of an editor as mounted, with the modal's
\* dontShowAgain.
NoModal == [isOpen |-> FALSE, type |-> None, id |-> None, dontShowAgain |-> FALSE]

\* The item types with a delete button.
DeleteTypes == {"room", "appliance", "attachment", "repair", "feature", "maintenance"}

\* The ids of the rows of an item type that the editors of the session's
\* house list: the rows of the house, and the repairs and attachments of its
\* appliances.
Listed(type) ==
    LET as == {x.id : x \in {y \in appliances : y.house_id = houseId}}
    IN  CASE type = "room" -> {x.id : x \in {y \in rooms : y.house_id = houseId}}
          [] type = "appliance" -> as
          [] type = "attachment" ->
                {x.id : x \in {y \in attachments : y.appliance_id \in as}}
          [] type = "repair" -> {x.id : x \in {y \in repairs : y.appliance_id \in as}}
          [] type = "feature" -> {x.id : x \in {y \in features : y.house_id = houseId}}
          [] type = "maintenance" ->
                {x.id : x \in {y \in maintenance : y.house_id = houseId}}

\* The tables after deleteRoom, deleteAppliance, deleteAttachment,
\* deleteRepair, deleteFeature or deleteMaintenance of the session's user:
\* rpc permanent_delete_room and permanent_delete_appliance, and
\* .delete().eq('id', id) under the row level security of the table.
AfterDelete(type, id) ==
    LET u == SessionUser
    IN  CASE type = "room" ->
                [Tables EXCEPT !.rooms =
                    {x \in rooms : ~(x.id = id /\ OwnsHouse(u, x.house_id))}]
          [] type = "appliance" ->
                [Tables EXCEPT
                    !.repairs = {x \in repairs :
                                    ~(x.appliance_id = id /\ OwnsAppliance(u, id))},
                    !.attachments = {x \in attachments :
                                    ~(x.appliance_id = id /\ OwnsAppliance(u, id))},
                    !.appliances = {x \in appliances :
                                    ~(x.id = id /\ OwnsHouse(u, x.house_id))}]
          [] type = "attachment" ->
                [Tables EXCEPT !.attachments =
                    {x \in attachments :
                        ~(x.id = id /\ OwnsAppliance(u, x.appliance_id))}]
          [] type = "repair" ->
                [Tables EXCEPT !.repairs =
                    {x \in repairs : ~(x.id = id /\ OwnsAppliance(u, x.appliance_id))}]
          [] type = "feature" ->
                [Tables EXCEPT !.features =
                    {x \in features : ~(x.id = id /\ OwnsHouse(u, x.house_id))}]
          [] type = "maintenance" ->
                [Tables EXCEPT !.maintenance =
                    {x \in maintenance : ~(x.id = id /\ OwnsHouse(u, x.house_id))}]

\* A confirmation that is asked for whatever localStorage holds.
shouldAlwaysShow == TRUE

\* shouldShowDeleteConfirmation(): localStorage.getItem(STORAGE_KEY) !== 'true'.
shouldShowDeleteConfirmation == storage # Some("true")

\* What the delete buttons and the modal leave alone.
ConfirmOnly ==
    UNCHANGED <<uiVars, rowsInserted, houseId, cd, calls, failedReads, currentYear,
                account, uploadVars, form, issued, viewVars>>

\* handleDeleteRoomClick, handleDeleteApplianceClick,
\* handleDeleteAttachmentClick, handleDeleteRepairClick,
\* handleDeleteFeatureClick, handleDeleteMaintenanceClick on a listed row.  The
\* open modal covers the page, so no delete button is clicked under it.
handleDeleteClick(type, id) ==
    /\ ~modal.isOpen
    /\ id \in Listed(type)
    /\ IF shouldShowDeleteConfirmation
         THEN /\ modal' = [modal EXCEPT !.isOpen = TRUE, !.type = Some(type),
                                        !.id = Some(id)]
              /\ Commit(Tables)
              /\ UNCHANGED mutated
         ELSE /\ Commit(AfterDelete(type, id))
              /\ mutated' = (calls # <<>>)
              /\ UNCHANGED modal
    /\ UNCHANGED storage
    /\ ConfirmOnly

\* onChange of the "Don't show this warning again" checkbox.
SetDontShowAgain(checked) ==
    /\ modal.isOpen
    /\ modal.dontShowAgain # checked
    /\ modal' = [modal EXCEPT !.dontShowAgain = checked]
    /\ Commit(Tables)
    /\ UNCHANGED <<storage, mutated>>
    /\ ConfirmOnly

\* setDeleteConfirmation({ isOpen: false, type: null, id: null, ... }); the
\* modal's own dontShowAgain stays.
Closed == [NoModal EXCEPT !.dontShowAgain = modal.dontShowAgain]

\* handleConfirm of the modal: "Delete Permanently".
handleConfirm ==
    /\ modal.isOpen
    /\ storage' = IF modal.dontShowAgain THEN Some("true") ELSE storage
    /\ IF modal.id # None /\ modal.type # None
         THEN /\ Commit(AfterDelete(modal.type[1], modal.id[1]))
              /\ mutated' = (calls # <<>>)
         ELSE /\ Commit(Tables)
              /\ UNCHANGED mutated
    /\ modal' = Closed
    /\ ConfirmOnly

\* onClose of the modal: Cancel, or the X.
onClose ==
    /\ modal.isOpen
    /\ modal' = Closed
    /\ Commit(Tables)
    /\ UNCHANGED <<storage, mutated>>
    /\ ConfirmOnly

\* The page is loaded again: the editors mount with their useState values,
\* and localStorage is what it was.
ReloadPage ==
    /\ modal # NoModal
    /\ modal' = NoModal
    /\ Commit(Tables)
    /\ UNCHANGED <<storage, mutated>>
    /\ ConfirmOnly

-----------------------------------------------------------------------------
(* FileUpload in the appliance form *)

\* const maxSize = maxSizeMB * 1024 * 1024
maxSize == maxSizeMB * 1024 * 1024

\* The sizes of the files a user picks: at the limit and one byte over it.
FileSizes == {maxSize, maxSize + 1}

\* No file is pending in the appliance form.
\* The handlers that await the store at one time, at most.
MaxDeletes == 2

\* The item types whose delete handler filters the list of its own render
\* (setRooms(rooms.filter(...)) and the like); deleteRepair and
\* deleteAttachment filter the list that is current (prev => ...).
FiltersOwnRender == {"room", "appliance", "feature", "maintenance"}

\* What the delete handlers leave alone.
ListsOnly ==
    UNCHANGED <<uiVars, rowsInserted, houseId, cd, calls, currentYear,
                account, uploadVars, form, issued, confirmVars, applied, roomEditor>>

\* deleteRoom(id), deleteAppliance(id), deleteAttachment(id, applianceId),
\* deleteRepair(id, applianceId), deleteFeature(id) or deleteMaintenance(id) is
\* called for a row of the list, from the delete button or from the modal's
\* onConfirm: the handler issues its request and awaits.  It holds the list
\* of the render it was made in.
deleteStarted(type, id) ==
    /\ Cardinality(deleting) < MaxDeletes
    /\ id \in lists[type]
    /\ \A d \in deleting : ~(d.type = type /\ d.id = id)
    /\ deleting' = deleting \cup {[type |-> type, id |-> id, seen |-> lists[type]]}
    /\ Commit(Tables)
    /\ UNCHANGED <<lists, mutated, failedReads>>
    /\ ListsOnly

\* The list after the handler's setter.
AfterFilter(d) ==
    [lists EXCEPT ![d.type] = IF d.type \in FiltersOwnRender
                                THEN d.seen \ {d.id}
                                ELSE @ \ {d.id}]

\* The store runs the delete and answers without an error: the handler sets
\* the list.
deleteAnswered ==
    \E d \in deleting :
        /\ Commit(AfterDelete(d.type, d.id))
        /\ mutated' = (calls # <<>>)
        /\ lists' = AfterFilter(d)
        /\ deleting' = deleting \ {d}
        /\ UNCHANGED failedReads
        /\ ListsOnly

\* The request fails: the catch logs, the list stays.
deleteFailed ==
    \E d \in deleting :
        /\ failedReads < MaxFailedReads
        /\ failedReads' = failedReads + 1
        /\ deleting' = deleting \ {d}
        /\ Commit(Tables)
        /\ UNCHANGED <<lists, mutated>>
        /\ ListsOnly

\* No library call was made.
NotApplied == [fn |-> "none"]

\* The lists of editors that are not mounted.
NoLists == [type \in DeleteTypes |-> {}]

\* useState<Partial<Room>>({}): no room is edited.
NoEdit == [f \in {} |-> None]

\* HouseDetails as it mounts: useState<Room[]>([]), editingRoomId null.
NoRoomEditor == [rooms |-> {}, editingRoomId |-> None, editedRoom |-> NoEdit]

\* No library call, no editor list, no delete under way.
ViewsIdle ==
    /\ applied = NotApplied
    /\ lists = NoLists
    /\ deleting = {}
    /\ roomEditor = NoRoomEditor

PagesIdle ==
    /\ uploadedFiles = <<>>
    /\ fileUpload = [NewFileUpload EXCEPT !.mounted = FALSE]
    /\ handed = {}
    /\ form = NoForm
    /\ issued = {}
    /\ storage = None
    /\ modal = NoModal
    /\ ViewsIdle

\* The FileLists a user can pick: 1..MaxPick files of the sizes; the files of
\* a FileList get the ids after the ones picked before.
RECURSIVE FileListsOfLength(_)
FileListsOfLength(n) ==
    IF n = 0 THEN {<<>>}
    ELSE {Append(l, s) : l \in FileListsOfLength(n - 1), s \in FileSizes}

FileLists == UNION {FileListsOfLength(n) : n \in 1..MaxPick}

FileArray(sizes) ==
    [i \in 1..Len(sizes) |-> [id |-> fileUpload.picked + i, size |-> sizes[i]]]

\* A loop that converts every file, whatever its size.
NextOfAnySize(files, i) == i

\* The for loop of handleFileSelect from file i on, up to its next await or
\* its end: the index of the next file that is not over maxSize (Len + 1 when
\* there is none).
RECURSIVE NextToConvert(_, _)
NextToConvert(files, i) ==
    IF i > Len(files) THEN i
    ELSE IF files[i].size > maxSize THEN NextToConvert(files, i + 1)
    ELSE i

\* The loop skipped a file between i and j: setError(`File ... exceeds`).
Skipped(files, i, j) == \E k \in i..(j - 1) : k <= Len(files) /\ files[k].size > maxSize

\* A call of handleFileSelect that returned: how (rejected at the count
\* check, or done), with nothing of its closure left.
Returned(how) ==
    [existing |-> <<>>, files |-> <<>>, next |-> 1, uploaded |-> <<>>, pc |-> how]

\* The call s of handleFileSelect goes on from file i with the error e:
\* through the files over maxSize to the next await, or to the end of the
\* loop and onFilesSelected(uploadedFiles) when a file was converted.  The
\* existingFiles and the onFilesSelected of the call are the ones of the
\* render the call started in: onFilesSelected sets
\* [...uploadedFiles, ...files] with that render's uploadedFiles.
Continue(fu, s, i, e) ==
    LET sel == fu.selections[s]
        j == NextToConvert(sel.files, i)
        err == IF ~fu.mounted THEN fu.error
               ELSE IF Skipped(sel.files, i, j) THEN FileTooLarge ELSE e
    IN  IF j <= Len(sel.files)
          THEN /\ fileUpload' = [fu EXCEPT !.error = err,
                                           !.selections[s].next = j,
                                           !.selections[s].pc = "converting"]
               /\ UNCHANGED <<uploadedFiles, handed>>
          ELSE /\ fileUpload' = [fu EXCEPT !.error = err,
                                           !.selections[s] = Returned("done")]
               /\ IF sel.uploaded # <<>>
                    THEN /\ uploadedFiles' = sel.existing \o sel.uploaded
                         /\ handed' = handed \cup
                                {sel.uploaded[k].id : k \in 1..Len(sel.uploaded)}
                    ELSE UNCHANGED <<uploadedFiles, handed>>

\* What the FileUpload steps leave alone.
UploadOnly ==
    UNCHANGED <<uiVars, storeVars, houseId, cd, calls, failedReads, currentYear, mutated,
                rooms, users, account, form, issued, confirmVars, viewVars>>

\* handleFileSelect(files), to its first await or its end.
handleFileSelect(sizes) ==
    /\ fileUpload.mounted
    /\ Len(fileUpload.selections) < MaxSelections
    /\ LET call == [existing |-> uploadedFiles, files |-> FileArray(sizes), next |-> 1,
                    uploaded |-> <<>>, pc |-> "start"]
           picked == fileUpload.picked + Len(sizes)
       IN  IF Len(uploadedFiles) + Len(sizes) > maxFiles
             THEN /\ fileUpload' = [fileUpload EXCEPT
                                        !.error = TooManyFiles, !.picked = picked,
                                        !.selections = Append(@, Returned("rejected"))]
                  /\ UNCHANGED <<uploadedFiles, handed>>
             ELSE Continue([fileUpload EXCEPT !.picked = picked,
                                              !.selections = Append(@, call)],
                           Len(fileUpload.selections) + 1, 1, NoError)
    /\ UploadOnly

\* fileToBase64 of the call s resolves: the file is pushed and the loop goes on.
ConversionDone(s) ==
    /\ s \in 1..Len(fileUpload.selections)
    /\ fileUpload.selections[s].pc = "converting"
    /\ LET sel == fileUpload.selections[s]
           fu == [fileUpload EXCEPT
                     !.selections[s].uploaded = Append(@, sel.files[sel.next])]
       IN  Continue(fu, s, sel.next + 1, fileUpload.error)
    /\ UploadOnly

\* fileToBase64 of the call s rejects: setError(`Failed to upload ...`) and
\* the loop goes on.
ConversionFailed(s) ==
    /\ s \in 1..Len(fileUpload.selections)
    /\ fileUpload.selections[s].pc = "converting"
    /\ failedReads < MaxFailedReads
    /\ failedReads' = failedReads + 1
    /\ Continue(fileUpload, s, fileUpload.selections[s].next + 1, FailedToUpload)
    /\ UNCHANGED <<uiVars, storeVars, houseId, cd, calls, currentYear, mutated,
                   rooms, users, account, form, issued, confirmVars, viewVars>>

\* onRemoveFile(index): setUploadedFiles(uploadedFiles.filter((_, i) => i !== index))
onRemoveFile(index) ==
    /\ fileUpload.mounted
    /\ index \in 1..Len(uploadedFiles)
    /\ uploadedFiles' = SubSeq(uploadedFiles, 1, index - 1) \o
                        SubSeq(uploadedFiles, index + 1, Len(uploadedFiles))
    /\ handed' = handed \ {uploadedFiles[index].id}
    /\ UNCHANGED fileUpload
    /\ UploadOnly

\* saveAppliance of a new appliance, to its end: the insert into
\* interior_appliances, the insert of the pending files into
\* appliance_attachments, and the reset of the form: setShowAddForm(false)
\* unmounts the FileUpload, setUploadedFiles([]) empties the pending list.
saveAppliance(in) ==
    /\ form.kind = "appliance"
    /\ ~form.editing
    /\ ~Disabled(form)
    /\ fileUpload.mounted
    /\ rowsInserted < MaxRows
    /\ OwnsHouse(SessionUser, in.house_id)
    /\ appliances' = appliances \cup
            {[id |-> NextId, house_id |-> in.house_id,
              purchase_cost |-> in.purchase_cost,
              installation_cost |-> in.installation_cost, deleted |-> FALSE]}
    /\ attachments' = attachments \cup
            {[id |-> NextId + k, appliance_id |-> NextId,
              file_size |-> uploadedFiles[k].size, deleted |-> FALSE] :
                 k \in 1..Len(uploadedFiles)}
    /\ rowsInserted' = NextId + Len(uploadedFiles)
    /\ uploadedFiles' = <<>>
    /\ handed' = {}
    /\ mutated' = (calls # <<>>)
    /\ fileUpload' = [fileUpload EXCEPT !.mounted = FALSE]
    /\ Issue("interior_appliances", "insert")
    /\ form' = NoForm
    /\ UNCHANGED <<uiVars, houses, repairs, features, maintenance, houseId, cd, calls,
                   failedReads, currentYear, rooms, users, account, confirmVars, viewVars>>

\* The requests of saveAppliance for a new appliance, in the order it awaits them.
SaveRequests == {"interior_appliances", "appliance_attachments"}

\* saveAppliance of a new appliance ends in its catch: the request to the
\* table at is answered with an error and is thrown.  The insert into
\* appliance_attachments is made after the insert into interior_appliances
\* was answered, and only with pending files.  The catch logs: the form stays
\* open with its values and its pending files.
saveApplianceFailed(in, at) ==
    /\ form.kind = "appliance"
    /\ ~form.editing
    /\ ~Disabled(form)
    /\ fileUpload.mounted
    /\ failedReads < MaxFailedReads
    /\ failedReads' = failedReads + 1
    /\ OwnsHouse(SessionUser, in.house_id)
    /\ Issue("interior_appliances", "insert")
    /\ IF at = "appliance_attachments"
         THEN /\ uploadedFiles # <<>>
              /\ rowsInserted < MaxRows
              /\ appliances' = appliances \cup
                    {[id |-> NextId, house_id |-> in.house_id,
                      purchase_cost |-> in.purchase_cost,
                      installation_cost |-> in.installation_cost, deleted |-> FALSE]}
              /\ rowsInserted' = NextId
              /\ mutated' = (calls # <<>>)
         ELSE UNCHANGED <<appliances, rowsInserted, mutated>>
    /\ UNCHANGED <<uiVars, houses, repairs, attachments, features, maintenance, houseId,
                   cd, calls, currentYear, rooms, users, account, uploadVars, form,
                   confirmVars, viewVars>>

\* The editors and the account page are not in view.
EditorsIdle ==
    /\ rooms = {}
    /\ users = Users
    /\ account = NewAccountPage
    /\ PagesIdle

\* setShowDeleteConfirm(true): "Delete Account" is clicked.
ShowDeleteConfirm ==
    /\ ~account.signedOut
    /\ ~account.showDeleteConfirm
    /\ account' = [account EXCEPT !.showDeleteConfirm = TRUE]
    /\ UNCHANGED <<uiVars, storeVars, houseId, cd, calls, failedReads, currentYear,
                   mutated, rooms, users, pageVars>>

\* setDeleteConfirmText(e.target.value)
SetDeleteConfirmText(text) ==
    /\ ~account.signedOut
    /\ account.showDeleteConfirm
    /\ account.deleteConfirmText # text
    /\ account' = [account EXCEPT !.deleteConfirmText = text]
    /\ UNCHANGED <<uiVars, storeVars, houseId, cd, calls, failedReads, currentYear,
                   mutated, rooms, users, pageVars>>

\* handleDeleteAccount, to its end: the text check, getUser, the rpc, then
\* signOut and onAccountDeleted, or the catch.
handleDeleteAccount ==
    /\ ~account.signedOut
    /\ account.showDeleteConfirm
    /\ IF account.deleteConfirmText # "DELETE"
         THEN /\ account.deleteError # "Please type DELETE to confirm"
              /\ account' = [account EXCEPT !.deleteError = "Please type DELETE to confirm"]
              /\ Commit(Tables)
         ELSE /\ account.rpcCalls < MaxAccountCalls
              /\ LET r == IF SessionUser \in users
                            THEN delete_user_account(Some(SessionUser))
                            ELSE [error |-> Some("No user found"), tables |-> Tables]
                 IN  /\ Commit(r.tables)
                     /\ account' =
                          IF r.error # None
                            THEN [account EXCEPT !.deleteError = r.error[1],
                                                 !.isDeletingAccount = FALSE,
                                                 !.rpcCalls = @ + 1]
                            ELSE [account EXCEPT !.deleteError = "",
                                                 !.isDeletingAccount = TRUE,
                                                 !.signedOut = TRUE,
                                                 !.rpcCalls = @ + 1]
    /\ UNCHANGED <<uiVars, rowsInserted, houseId, cd, calls, failedReads, currentYear,
                   mutated, pageVars>>

-----------------------------------------------------------------------------
(* The query client: the reads CostDashboard.loadCosts issues.  A read is    *)
(* answered from the committed rows at the moment it completes; every read   *)
(* runs under the row-level-security SELECT policies as SessionUser.         *)

\* The rows of the set S as an array, in id order.
RECURSIVE RowsOf(_)
RowsOf(S) ==
    IF S = {} THEN <<>>
    ELSE LET x == CHOOSE y \in S : \A z \in S : y.id <= z.id
         IN  <<x>> \o RowsOf(S \ {x})

\* from('houses').select('year_bought, year_sold, price_paid, price_sold, ...')
\*   .eq('id', h).is('deleted_at', null).maybeSingle()
\* (id is the primary key: at most one row matches; data is the row or null)
SelectHouse(h) ==
    LET S == {x \in houses : x.id = h /\ ~x.deleted /\ x.user_id = SessionUser}
    IN  IF S = {} THEN <<>> ELSE <<CHOOSE x \in S : TRUE>>

\* An appliance read without the deleted_at filter.
SelectAppliancesWithDeleted(h) ==
    RowsOf({x \in appliances : x.house_id = h /\ OwnsHouse(SessionUser, x.house_id)})

\* from('interior_appliances').select('purchase_cost, installation_cost, id')
\*   .eq('house_id', h).is('deleted_at', null)
SelectAppliances(h) ==
    RowsOf({x \in appliances :
              x.house_id = h /\ ~x.deleted /\ OwnsHouse(SessionUser, x.house_id)})

\* from('exterior_features').select('build_cost').eq('house_id', h).is('deleted_at', null)
SelectFeatures(h) ==
    RowsOf({x \in features :
              x.house_id = h /\ ~x.deleted /\ OwnsHouse(SessionUser, x.house_id)})

\* from('exterior_maintenance').select('cost').eq('house_id', h).is('deleted_at', null)
SelectMaintenance(h) ==
    RowsOf({x \in maintenance :
              x.house_id = h /\ ~x.deleted /\ OwnsHouse(SessionUser, x.house_id)})

\* A repair read without the deleted_at filter.
SelectRepairsWithDeleted(ids) ==
    RowsOf({x \in repairs :
              x.appliance_id \in ids /\ OwnsAppliance(SessionUser, x.appliance_id)})

\* from('appliance_repairs').select('repair_cost').in('appliance_id', ids).is('deleted_at', null)
SelectRepairs(ids) ==
    RowsOf({x \in repairs :
              x.appliance_id \in ids /\ ~x.deleted /\ OwnsAppliance(SessionUser, x.appliance_id)})

\* A houses row.
House(id, user, paid, sold, bought, soldYear) ==
    [id |-> id, user_id |-> user, price_paid |-> paid, price_sold |-> sold,
     year_bought |-> bought, year_sold |-> soldYear, deleted |-> FALSE]

-----------------------------------------------------------------------------
(* CostDashboard *)

\* The four reads of Promise.all in loadCosts.
ReadNames == {"house", "appliances", "features", "maintenance"}

\* A read that has not been answered, one answered {data, error: null}, one
\* answered {data: null, error}, and the repair read while it is not issued.
Pending == [st |-> "pending", rows |-> <<>>]

Ok(rows) == [st |-> "ok", rows |-> rows]

Failed == [st |-> "error", rows |-> <<>>]

NotIssued == [st |-> "none", rows |-> <<>>]

\* useState<CostBreakdown>({ housePurchase: 0, ..., totalCost: 0 })
InitialCosts ==
    [housePurchase |-> 0, appliances |-> 0, applianceInstallation |-> 0,
     applianceRepairs |-> 0, exteriorFeatures |-> 0, exteriorMaintenance |-> 0,
     totalCost |-> 0]

\* A freshly mounted CostDashboard: costs, houseInfo = null, loading = true.
\* inst tells the instances apart; effect: the [houseId] effect is due;
\* shown (ghost) is the loadCosts call whose setCosts the instance last took.
NewCostDashboard(inst) ==
    [inst |-> inst, costs |-> InitialCosts, houseInfo |-> None, loading |-> TRUE,
     effect |-> TRUE, shown |-> 0]

\* Number(x) || 0 for a nullable numeric column x.
NumberOrZero(x) == IF x = None THEN 0 ELSE x[1]

\* data.reduce((sum, a) => sum + (Number(a[field]) || 0), 0)
RECURSIVE Reduce(_, _)
Reduce(rows, field) ==
    IF rows = <<>> THEN 0
    ELSE Reduce(SubSeq(rows, 1, Len(rows) - 1), field)
         + NumberOrZero(rows[Len(rows)][field])

\* A sum that stops at the first row.
SumOfFirstRow(res, field) ==
    IF res.st # "ok" \/ res.rows = <<>> THEN 0 ELSE NumberOrZero(res.rows[1][field])

\* res.data?.reduce(...) || 0
SumOf(res, field) == IF res.st # "ok" THEN 0 ELSE Reduce(res.rows, field)

\* A purchase figure that takes the sale price when the house is sold.
HousePurchaseOrSale(res) ==
    IF res.st # "ok" \/ res.rows = <<>> THEN 0
    ELSE IF res.rows[1].price_sold # None THEN res.rows[1].price_sold[1]
    ELSE NumberOrZero(res.rows[1].price_paid)

\* houseRes.data?.price_paid || 0
HousePurchase(res) ==
    IF res.st # "ok" \/ res.rows = <<>> THEN 0 ELSE NumberOrZero(res.rows[1].price_paid)

\* A guard that asks for the data only, not for its length.
HasApplianceData(res) == res.st = "ok"

\* if (appliancesRes.data && appliancesRes.data.length > 0)
HasAppliances(res) == res.st = "ok" /\ Len(res.rows) > 0

\* A key list that misses the first appliance.
ApplianceIdsAfterFirst(res) == {res.rows[i].id : i \in 2..Len(res.rows)}

\* appliancesRes.data.map(a => a.id)
ApplianceIds(res) == {res.rows[i].id : i \in 1..Len(res.rows)}

\* A total that leaves the repairs out.
TotalCostWithoutRepairs(hp, ap, ai, ar, ef, em) == hp + ap + ai + ef + em

\* const totalCost = housePurchase + appliances + ... + exteriorMaintenance
TotalCost(hp, ap, ai, ar, ef, em) == hp + ap + ai + ar + ef + em

\* The CostBreakdown loadCosts passes to setCosts, from the four phase-1
\* results r and the repair result rep (NotIssued when the read was skipped).
Breakdown(r, rep) ==
    LET hp == HousePurchase(r["house"])
        ap == SumOf(r["appliances"], "purchase_cost")
        ai == SumOf(r["appliances"], "installation_cost")
        ar == IF HasAppliances(r["appliances"]) THEN SumOf(rep, "repair_cost") ELSE 0
        ef == SumOf(r["features"], "build_cost")
        em == SumOf(r["maintenance"], "cost")
    IN  [housePurchase |-> hp, appliances |-> ap, applianceInstallation |-> ai,
         applianceRepairs |-> ar, exteriorFeatures |-> ef, exteriorMaintenance |-> em,
         totalCost |-> TotalCost(hp, ap, ai, ar, ef, em)]

\* The columns of a houses row that loadCosts keeps as houseInfo.
HouseInfoOf(x) ==
    [year_bought |-> x.year_bought, year_sold |-> x.year_sold,
     price_paid |-> x.price_paid, price_sold |-> x.price_sold]

\* A loadCosts call of CostDashboard instance inst, started with houseId = h:
\* its four reads are in flight.
NewCall(inst, h) ==
    [inst |-> inst, house |-> h, pc |-> "phase1",
     res |-> [q \in ReadNames |-> Pending], keys |-> {}, rep |-> NotIssued,
     end |-> "running"]

CallIds == 1..Len(calls)

\* The useEffect on [houseId]: if (houseId) loadCosts() else setLoading(false).
\* loadCosts runs to its first await, which issues the four reads.
CostDashboardEffect ==
    /\ cd.effect
    /\ IF houseId # NoHouse
         THEN /\ Len(calls) < MaxCalls
              /\ calls' = Append(calls, NewCall(cd.inst, houseId))
              /\ cd' = [cd EXCEPT !.effect = FALSE]
              /\ mutated' = FALSE
         ELSE /\ cd' = [cd EXCEPT !.effect = FALSE, !.loading = FALSE]
              /\ UNCHANGED <<calls, mutated>>
    /\ UNCHANGED <<uiVars, storeVars, houseId, failedReads, currentYear, editorVars>>

\* The state of the CostDashboard after call c reaches setCosts, setHouseInfo
\* and, in finally, setLoading(false).  The setters of an instance that has
\* been unmounted change nothing that is rendered.
Stored(c, r, rep) ==
    IF calls[c].inst # cd.inst THEN cd
    ELSE [cd EXCEPT !.costs = Breakdown(r, rep),
                    !.houseInfo = IF r["house"].st = "ok" /\ r["house"].rows # <<>>
                                    THEN Some(HouseInfoOf(r["house"].rows[1]))
                                    ELSE @,
                    !.loading = FALSE,
                    !.shown = c]

\* catch (error) { console.error(...) } finally { setLoading(false) }
Caught(c) ==
    IF calls[c].inst # cd.inst THEN cd ELSE [cd EXCEPT !.loading = FALSE]

\* The continuation of loadCosts after Promise.all resolved with results r:
\* either it issues the repair read and awaits it, or it runs to the end.
AfterPhase1(c, r) ==
    IF HasAppliances(r["appliances"])
      THEN /\ calls' = [calls EXCEPT ![c].res = r, ![c].pc = "phase2",
                                     ![c].keys = ApplianceIds(r["appliances"]),
                                     ![c].rep = Pending]
           /\ UNCHANGED cd
      ELSE /\ calls' = [calls EXCEPT ![c].res = r, ![c].pc = "done", ![c].end = "stored"]
           /\ cd' = Stored(c, r, NotIssued)

\* The answer of the store to phase-1 read q of a call for house h.
Select(q, h) ==
    CASE q = "house"       -> SelectHouse(h)
      [] q = "appliances"  -> SelectAppliances(h)
      [] q = "features"    -> SelectFeatures(h)
      [] q = "maintenance" -> SelectMaintenance(h)

\* Phase-1 read q of call c settles with result x; Promise.all resolves once
\* all four have settled.
Settle(c, q, x) ==
    LET r == [calls[c].res EXCEPT ![q] = x]
    IN  IF \A p \in ReadNames : r[p].st # "pending"
          THEN AfterPhase1(c, r)
          ELSE /\ calls' = [calls EXCEPT ![c].res = r]
               /\ UNCHANGED cd

\* A phase-1 read is answered with rows.
ReadOk(c, q) ==
    /\ c \in CallIds
    /\ calls[c].pc = "phase1"
    /\ calls[c].res[q].st = "pending"
    /\ Settle(c, q, Ok(Select(q, calls[c].house)))
    /\ UNCHANGED <<uiVars, storeVars, houseId, failedReads, currentYear, editorVars, mutated>>

\* A phase-1 read is answered {data: null, error}: the client does not throw,
\* and loadCosts never looks at error.
ReadError(c, q) ==
    /\ c \in CallIds
    /\ calls[c].pc = "phase1"
    /\ calls[c].res[q].st = "pending"
    /\ failedReads < MaxFailedReads
    /\ failedReads' = failedReads + 1
    /\ Settle(c, q, Failed)
    /\ UNCHANGED <<uiVars, storeVars, houseId, currentYear, editorVars, mutated>>

\* A phase-1 read rejects: Promise.all rejects, control goes to catch and finally.
ReadThrow(c, q) ==
    /\ c \in CallIds
    /\ calls[c].pc = "phase1"
    /\ calls[c].res[q].st = "pending"
    /\ failedReads < MaxFailedReads
    /\ failedReads' = failedReads + 1
    /\ calls' = [calls EXCEPT ![c].res[q] = Failed, ![c].pc = "done", ![c].end = "caught"]
    /\ cd' = Caught(c)
    /\ UNCHANGED <<uiVars, storeVars, houseId, currentYear, editorVars, mutated>>

\* The repair read is answered with rows; loadCosts runs to the end.
RepairsOk(c) ==
    /\ c \in CallIds
    /\ calls[c].pc = "phase2"
    /\ LET rep == Ok(SelectRepairs(calls[c].keys))
       IN  /\ calls' = [calls EXCEPT ![c].rep = rep, ![c].pc = "done", ![c].end = "stored"]
           /\ cd' = Stored(c, calls[c].res, rep)
    /\ UNCHANGED <<uiVars, storeVars, houseId, failedReads, currentYear, editorVars, mutated>>

\* The repair read is answered {data: null, error}.
RepairsError(c) ==
    /\ c \in CallIds
    /\ calls[c].pc = "phase2"
    /\ failedReads < MaxFailedReads
    /\ failedReads' = failedReads + 1
    /\ calls' = [calls EXCEPT ![c].rep = Failed, ![c].pc = "done", ![c].end = "stored"]
    /\ cd' = Stored(c, calls[c].res, Failed)
    /\ UNCHANGED <<uiVars, storeVars, houseId, currentYear, editorVars, mutated>>

\* The repair read rejects.
RepairsThrow(c) ==
    /\ c \in CallIds
    /\ calls[c].pc = "phase2"
    /\ failedReads < MaxFailedReads
    /\ failedReads' = failedReads + 1
    /\ calls' = [calls EXCEPT ![c].rep = Failed, ![c].pc = "done", ![c].end = "caught"]
    /\ cd' = Caught(c)
    /\ UNCHANGED <<uiVars, storeVars, houseId, currentYear, editorVars, mutated>>

\* What CostDashboard renders: the loading text, the welcome panel, or the
\* dashboard with the cost breakdown.
Rendered ==
    IF cd.loading THEN "loading"
    ELSE IF houseId = NoHouse THEN "welcome"
    ELSE "breakdown"

\* The truth value JavaScript gives a nullable numeric column in a condition:
\* null and 0 are both false.
Truthy(x) == x # None /\ x[1] # 0

\* const profit = houseInfo?.price_sold ? houseInfo.price_sold - costs.totalCost : null
profit ==
    IF cd.houseInfo # None /\ Truthy(cd.houseInfo[1].price_sold)
      THEN Some(cd.houseInfo[1].price_sold[1] - cd.costs.totalCost)
      ELSE None

\* const yearsOwned = year_bought && year_sold ? year_sold - year_bought
\*                  : year_bought ? new Date().getFullYear() - year_bought : null
yearsOwned ==
    IF cd.houseInfo = None THEN None
    ELSE LET h == cd.houseInfo[1]
         IN  IF Truthy(h.year_bought) /\ Truthy(h.year_sold)
               THEN Some(h.year_sold[1] - h.year_bought[1])
             ELSE IF Truthy(h.year_bought)
               THEN Some(currentYear - h.year_bought[1])
             ELSE None

\* The quotient t / y of JavaScript for y # 0, as its whole part and the
\* rest of the division: whole * y + rest = t.
Quotient(t, y) ==
    IF y > 0 THEN [whole |-> t \div y, rest |-> t % y]
    ELSE [whole |-> -(t \div (-y)), rest |-> t % (-y)]

\* A per-year figure for any yearsOwned that is not 0.
costPerYearOfAnyYears ==
    IF yearsOwned # None /\ yearsOwned[1] # 0
      THEN Some(Quotient(cd.costs.totalCost, yearsOwned[1]))
      ELSE None

\* {yearsOwned && ( ... {yearsOwned > 0 && (
\*    formatCurrency(costs.totalCost / yearsOwned, ...) /year )} )}
\* The quotient costs.totalCost / yearsOwned is held as its whole part and
\* the rest of the division; None when no per-year figure is rendered.
costPerYear ==
    IF yearsOwned # None /\ yearsOwned[1] # 0 /\ yearsOwned[1] > 0
      THEN Some(Quotient(cd.costs.totalCost, yearsOwned[1]))
      ELSE None

-----------------------------------------------------------------------------
(* Dashboard and the house form *)

\* type View = 'dashboard' | 'house' | 'interior' | 'exterior' | 'account'
Views == {"dashboard", "house", "interior", "exterior", "account"}

\* The state of a Dashboard as constructed: the dashboard view, loading.
NewDashboard ==
    [currentView |-> "dashboard", loading |-> TRUE,
     hasUnsavedHouse |-> FALSE, hasUnsavedInterior |-> FALSE,
     hasUnsavedExterior |-> FALSE, hasUnsavedAccount |-> FALSE,
     dashboardRefreshKey |-> 0]

\* No CostDashboard is mounted: the view is not the dashboard view.
NoCostDashboard ==
    [inst |-> 0, costs |-> InitialCosts, houseInfo |-> None, loading |-> TRUE,
     effect |-> FALSE, shown |-> 0]

\* HouseDetails as mounted (loading = false) and the house view with no
\* HouseDetails mounted.
NewHouseDetails == [mounted |-> TRUE, loading |-> FALSE]

NoHouseDetails == [mounted |-> FALSE, loading |-> FALSE]

\* The id the store gives the n-th house inserted by the house form.
NewHouseId(n) == "N" \o ToString(n)

\* The purchase prices typed into the house form.
FormPrices == {Some(300000), Some(250000)}

\* from('houses').select('id').is('deleted_at', null).maybeSingle(): the id
\* of the user's house, null when there is none, an error when there are
\* several; loadData then leaves houseId null.
OwnHouseId ==
    LET S == {x \in houses : ~x.deleted /\ x.user_id = SessionUser}
    IN  IF Cardinality(S) = 1 THEN (CHOOSE x \in S : TRUE).id ELSE NoHouse

\* loadData, at the mount of Dashboard: setHouseId, setLoading(false); the
\* dashboard view renders and mounts the first CostDashboard.
LoadData ==
    /\ dash.loading
    /\ houseId' = OwnHouseId
    /\ dash' = [dash EXCEPT !.loading = FALSE]
    /\ cd' = NewCostDashboard(dash.dashboardRefreshKey + 1)
    /\ UNCHANGED <<storeVars, calls, failedReads, currentYear, editorVars, mutated, hd, saves>>

\* The hasUnsaved flag handleNavigate consults for the current view.
HasUnsaved ==
    \/ dash.currentView = "house" /\ dash.hasUnsavedHouse
    \/ dash.currentView = "interior" /\ dash.hasUnsavedInterior
    \/ dash.currentView = "exterior" /\ dash.hasUnsavedExterior
    \/ dash.currentView = "account" /\ dash.hasUnsavedAccount

\* A navigation that leaves the unsaved flags as they are.
NavigatedKeepingFlags(view) ==
    IF view = dash.currentView THEN dash
    ELSE [dash EXCEPT !.currentView = view,
                      !.dashboardRefreshKey = IF view = "dashboard" THEN @ + 1 ELSE @]

\* A navigation that leaves dashboardRefreshKey as it is.
NavigatedWithoutRefresh(view) ==
    IF view = dash.currentView THEN dash
    ELSE [dash EXCEPT !.currentView = view,
                      !.hasUnsavedHouse = FALSE, !.hasUnsavedInterior = FALSE,
                      !.hasUnsavedExterior = FALSE, !.hasUnsavedAccount = FALSE]

\* Dashboard state after handleNavigate(view) went past the confirmation.
Navigated(view) ==
    IF view = dash.currentView THEN dash
    ELSE [dash EXCEPT !.currentView = view,
                      !.hasUnsavedHouse = FALSE, !.hasUnsavedInterior = FALSE,
                      !.hasUnsavedExterior = FALSE, !.hasUnsavedAccount = FALSE,
                      !.dashboardRefreshKey = IF view = "dashboard" THEN @ + 1 ELSE @]

\* A click on a sidebar button: handleNavigate(view), with the answer to
\* window.confirm when it is asked, and the render that follows, which
\* unmounts the component of the old view and mounts that of the new one.
\* The interior and exterior buttons are disabled while houseId is null.
HandleNavigate(view, confirmLeave) ==
    /\ ~dash.loading
    /\ view \in {"interior", "exterior"} => houseId # NoHouse
    /\ view = "dashboard" /\ dash.currentView # "dashboard"
         => dash.dashboardRefreshKey < MaxRefreshKey
    /\ IF (HasUnsaved /\ ~confirmLeave) \/ view = dash.currentView
         THEN UNCHANGED <<dash, cd, hd, saves>>
         ELSE /\ dash' = Navigated(view)
              /\ cd' = IF view = "dashboard"
                         THEN NewCostDashboard(dash.dashboardRefreshKey + 2)
                         ELSE NoCostDashboard
              /\ hd' = IF view = "house" THEN NewHouseDetails ELSE NoHouseDetails
              /\ saves' = IF dash.currentView = "house"
                            THEN [s \in 1..Len(saves) |-> [saves[s] EXCEPT !.live = FALSE]]
                            ELSE saves
    /\ UNCHANGED <<storeVars, houseId, calls, failedReads, currentYear, editorVars, mutated>>

\* onHasUnsavedChanges(b) of the component of the current view: its form
\* differs, or no longer differs, from what it loaded.
OnHasUnsavedChanges(b) ==
    /\ ~dash.loading
    /\ dash.currentView # "dashboard"
    /\ dash' = CASE dash.currentView = "house" -> [dash EXCEPT !.hasUnsavedHouse = b]
                 [] dash.currentView = "interior" -> [dash EXCEPT !.hasUnsavedInterior = b]
                 [] dash.currentView = "exterior" -> [dash EXCEPT !.hasUnsavedExterior = b]
                 [] dash.currentView = "account" -> [dash EXCEPT !.hasUnsavedAccount = b]
    /\ dash' # dash
    /\ UNCHANGED <<storeVars, houseId, cd, calls, failedReads, currentYear, editorVars, mutated,
                   hd, saves>>

\* A click on Save House Details (disabled while loading) with price typed
\* as the purchase price: saveHouse runs to its first await, the update of
\* the house when houseId is set, the insert of a new house when it is null.
SaveHouseClick(price) ==
    /\ ~dash.loading
    /\ dash.currentView = "house"
    /\ ~hd.loading
    /\ Len(saves) < MaxSaves
    /\ hd' = [hd EXCEPT !.loading = TRUE]
    /\ saves' = Append(saves, [pc |-> IF houseId # NoHouse THEN "update" ELSE "insert",
                               house |-> houseId, price |-> price, live |-> TRUE])
    /\ UNCHANGED <<storeVars, houseId, cd, calls, failedReads, currentYear, editorVars, mutated, dash>>

\* handleHouseCreated(id) and the render that follows: a mounted
\* CostDashboard whose houseId prop changed has its [houseId] effect due.
HouseCreated(id) ==
    /\ houseId' = id
    /\ cd' = IF cd.inst # 0 /\ id # houseId THEN [cd EXCEPT !.effect = TRUE] ELSE cd

\* The insert of saveHouse is answered with the new row: onHouseCreated,
\* then the upsert of the property details is issued.
HouseInserted(s) ==
    /\ s \in 1..Len(saves)
    /\ saves[s].pc = "insert"
    /\ LET id == NewHouseId(Cardinality({x \in houses : x.user_id = SessionUser}) + 1)
       IN  /\ houses' = houses \cup {House(id, SessionUser, saves[s].price, None, None, None)}
           /\ HouseCreated(id)
           /\ saves' = [saves EXCEPT ![s].pc = "upsert", ![s].house = id]
    /\ mutated' = (calls # <<>>)
    /\ UNCHANGED <<appliances, repairs, attachments, features, maintenance, rowsInserted,
                   calls, failedReads, currentYear, editorVars, dash, hd>>

\* The update of saveHouse is answered: the house row has the form's values.
HouseUpdated(s) ==
    /\ s \in 1..Len(saves)
    /\ saves[s].pc = "update"
    /\ houses' = {IF x.id = saves[s].house /\ x.user_id = SessionUser
                    THEN [x EXCEPT !.price_paid = saves[s].price] ELSE x : x \in houses}
    /\ saves' = [saves EXCEPT ![s].pc = "upsert"]
    /\ mutated' = IF houses' # houses THEN calls # <<>> ELSE mutated
    /\ UNCHANGED <<appliances, repairs, attachments, features, maintenance, rowsInserted,
                   houseId, cd, calls, failedReads, currentYear, editorVars, dash, hd>>

\* The upsert is answered: onHasUnsavedChanges(false), the saved message
\* and, in finally, setLoading(false) in the HouseDetails that ran the call.
SaveHouseEnd(s) ==
    /\ s \in 1..Len(saves)
    /\ saves[s].pc = "upsert"
    /\ saves' = [saves EXCEPT ![s].pc = "done"]
    /\ dash' = [dash EXCEPT !.hasUnsavedHouse = FALSE]
    /\ hd' = IF saves[s].live THEN [hd EXCEPT !.loading = FALSE] ELSE hd
    /\ UNCHANGED <<storeVars, houseId, cd, calls, failedReads, currentYear, editorVars, mutated>>

\* A request of saveHouse is answered with an error: the catch shows the
\* failure message, finally runs setLoading(false).
SaveHouseFailed(s) ==
    /\ s \in 1..Len(saves)
    /\ saves[s].pc \in {"insert", "update", "upsert"}
    /\ failedReads < MaxFailedReads
    /\ failedReads' = failedReads + 1
    /\ saves' = [saves EXCEPT ![s].pc = "done"]
    /\ hd' = IF saves[s].live THEN [hd EXCEPT !.loading = FALSE] ELSE hd
    /\ UNCHANGED <<storeVars, houseId, cd, calls, currentYear, editorVars, mutated, dash>>

\* Dashboard with loadData done and the dashboard view up, as the cost
\* dashboard alone sees it.
DashboardUp == [NewDashboard EXCEPT !.loading = FALSE]

-----------------------------------------------------------------------------
(* The cost dashboard over a store that other sessions change *)

\* The house of the other user and its rows, which no request of the model
\* touches: they are there for the reads to leave out.
OtherHouse == House("H2", "U2", Some(250000), Some(400000), Some(2001), Some(2011))

OtherAppliances ==
    {[id |-> 101, house_id |-> "H2", purchase_cost |-> Some(70),
      installation_cost |-> Some(7), deleted |-> FALSE]}

OtherRepairs ==
    {[id |-> 102, appliance_id |-> 101, repair_cost |-> Some(30), deleted |-> FALSE]}

OtherFeatures ==
    {[id |-> 103, house_id |-> "H2", build_cost |-> Some(900), deleted |-> FALSE]}

OtherMaintenance ==
    {[id |-> 104, house_id |-> "H2", cost |-> Some(40), deleted |-> FALSE]}

InitCost ==
    /\ houses = {House("H1", "U1", Some(300000), None, None, None), OtherHouse}
    /\ appliances = OtherAppliances
    /\ repairs = OtherRepairs
    /\ attachments = {}
    /\ features = OtherFeatures
    /\ maintenance = OtherMaintenance
    /\ rowsInserted = 0
    /\ houseId \in {"H1", NoHouse}
    /\ cd = NewCostDashboard(1)
    /\ calls = <<>>
    /\ failedReads = 0
    /\ currentYear = 2026
    /\ mutated = FALSE
    /\ dash = DashboardUp
    /\ hd = NoHouseDetails
    /\ saves = <<>>
    /\ EditorsIdle

\* The rows of the session's house that a request can name.
MyAppliances == {x.id : x \in {y \in appliances : y.house_id = "H1"}}

MyRepairs == {x.id : x \in {y \in repairs : y.appliance_id \in MyAppliances}}

MyFeatures == {x.id : x \in {y \in features : y.house_id = "H1"}}

MyMaintenance == {x.id : x \in {y \in maintenance : y.house_id = "H1"}}

\* A request of any signed-in user, from any session, on a row of the house.
StoreRequest ==
    \E u \in Users :
        \/ \E in \in ApplianceInputs : InsertAppliance(u, in)
        \/ \E a \in MyAppliances, cost \in RepairCosts : InsertRepair(u, a, cost)
        \/ \E in \in FeatureInputs : InsertFeature(u, in)
        \/ \E in \in MaintenanceInputs : InsertMaintenance(u, in)
        \/ \E r \in MyRepairs : DeleteRepair(u, r)
        \/ \E f \in MyFeatures : DeleteFeature(u, f)
        \/ \E m \in MyMaintenance : DeleteMaintenance(u, m)
        \/ \E a \in MyAppliances : soft_delete_appliance(u, a)
        \/ \E a \in MyAppliances : restore_appliance(u, a)
        \/ \E a \in MyAppliances : permanent_delete_appliance(u, a)
        \/ \E f \in MyFeatures : soft_delete_exterior_feature(u, f)
        \/ \E f \in MyFeatures : restore_exterior_feature(u, f)
        \/ \E m \in MyMaintenance : soft_delete_exterior_maintenance(u, m)
        \/ \E m \in MyMaintenance : restore_exterior_maintenance(u, m)

\* The reads of a call are answered, in any order.
LoadAnswered ==
    \E c \in 1..MaxCalls :
        \/ \E q \in ReadNames : ReadOk(c, q)
        \/ RepairsOk(c)

\* A read of a call fails.
LoadFailed ==
    \E c \in 1..MaxCalls :
        \/ \E q \in ReadNames : ReadError(c, q)
        \/ \E q \in ReadNames : ReadThrow(c, q)
        \/ RepairsError(c)
        \/ RepairsThrow(c)

NextCost == StoreRequest \/ CostDashboardEffect \/ LoadAnswered

SpecCost == InitCost /\ [][NextCost]_vars

-----------------------------------------------------------------------------
(* The cost dashboard over every store of a pool of rows, with failing reads *)

PoolAppliances ==
    {[id |-> 1, house_id |-> "H1", purchase_cost |-> Some(1200),
      installation_cost |-> Some(300), deleted |-> FALSE],
     [id |-> 2, house_id |-> "H1", purchase_cost |-> None,
      installation_cost |-> Some(45), deleted |-> FALSE],
     [id |-> 3, house_id |-> "H1", purchase_cost |-> Some(650),
      installation_cost |-> None, deleted |-> TRUE]}

PoolRepairs ==
    {[id |-> 4, appliance_id |-> 1, repair_cost |-> Some(150), deleted |-> FALSE],
     [id |-> 5, appliance_id |-> 1, repair_cost |-> None, deleted |-> FALSE],
     [id |-> 6, appliance_id |-> 2, repair_cost |-> Some(20), deleted |-> TRUE]}

PoolFeatures ==
    {[id |-> 7, house_id |-> "H1", build_cost |-> Some(5000), deleted |-> FALSE],
     [id |-> 8, house_id |-> "H1", build_cost |-> None, deleted |-> FALSE]}

PoolMaintenance ==
    {[id |-> 9, house_id |-> "H1", cost |-> Some(800), deleted |-> FALSE],
     [id |-> 10, house_id |-> "H1", cost |-> Some(60), deleted |-> TRUE]}

\* The values of the houses columns: a price or a year typed into the house
\* form (which takes any number, 0 included) or left empty.
PricesPaid == {None, Some(300000)}

PricesSold == {None, Some(0), Some(250000), Some(400000)}

YearsBought == {None, Some(0), Some(2010)}

YearsSold == {None, Some(0), Some(2005), Some(2010), Some(2020)}

\* The session's house as first saved: a purchase price and nothing else.
PlainHouse == House("H1", "U1", Some(300000), None, None, None)

\* Every store of the pool under the plain house, and every house of the
\* form over the empty store and over the store of all active pool rows.
InitLoad ==
    /\ \E as \in SUBSET PoolAppliances, rs \in SUBSET PoolRepairs,
          fs \in SUBSET PoolFeatures, ms \in SUBSET PoolMaintenance,
          paid \in PricesPaid, sold \in PricesSold,
          bought \in YearsBought, soldYear \in YearsSold :
            LET h == House("H1", "U1", paid, sold, bought, soldYear)
            IN  /\ \A r \in rs : \E a \in as : a.id = r.appliance_id
                /\ \/ h = PlainHouse
                   \/ as \cup rs \cup fs \cup ms = {}
                   \/ /\ {x \in PoolAppliances : ~x.deleted} = as
                      /\ {x \in PoolRepairs : ~x.deleted} = rs
                      /\ {x \in PoolFeatures : ~x.deleted} = fs
                      /\ {x \in PoolMaintenance : ~x.deleted} = ms
                /\ houses = {h, OtherHouse}
                /\ appliances = as \cup OtherAppliances
                /\ repairs = rs \cup OtherRepairs
                /\ features = fs \cup OtherFeatures
                /\ maintenance = ms \cup OtherMaintenance
    /\ attachments = {}
    /\ rowsInserted = 10
    /\ houseId \in {"H1", NoHouse}
    /\ cd = NewCostDashboard(1)
    /\ calls = <<>>
    /\ failedReads = 0
    /\ currentYear = 2026
    /\ mutated = FALSE
    /\ dash = DashboardUp
    /\ hd = NoHouseDetails
    /\ saves = <<>>
    /\ EditorsIdle

NextLoad == CostDashboardEffect \/ LoadAnswered \/ LoadFailed

SpecLoad == InitLoad /\ [][NextLoad]_vars

-----------------------------------------------------------------------------
(* Dashboard, house form and cost dashboard of one session *)

\* Dashboard is constructed and loadData is in flight; the user has no
\* house yet, or has the house of the end-to-end scenario.
InitDash ==
    /\ \/ /\ houses = {OtherHouse}
          /\ appliances = OtherAppliances
          /\ repairs = OtherRepairs
          /\ features = OtherFeatures
          /\ maintenance = OtherMaintenance
       \/ /\ houses = {PlainHouse, OtherHouse}
          /\ appliances = {x \in PoolAppliances : x.id = 1} \cup OtherAppliances
          /\ repairs = {x \in PoolRepairs : x.id = 4} \cup OtherRepairs
          /\ features = {x \in PoolFeatures : x.id = 7} \cup OtherFeatures
          /\ maintenance = {x \in PoolMaintenance : x.id = 9} \cup OtherMaintenance
    /\ attachments = {}
    /\ rowsInserted = 10
    /\ houseId = NoHouse
    /\ cd = NoCostDashboard
    /\ calls = <<>>
    /\ failedReads = 0
    /\ currentYear = 2026
    /\ mutated = FALSE
    /\ dash = NewDashboard
    /\ hd = NoHouseDetails
    /\ saves = <<>>
    /\ EditorsIdle

\* The steps of saveHouse after the click.
SaveHouseStep ==
    \E s \in 1..MaxSaves :
        \/ HouseInserted(s)
        \/ HouseUpdated(s)
        \/ SaveHouseEnd(s)
        \/ SaveHouseFailed(s)

\* The four reads of Promise.all in the order loadCosts lists them.
ReadOrder == <<"house", "appliances", "features", "maintenance">>

\* The store answers the reads of one call in the order it received them;
\* the reads of different calls are answered in any order.
ReadOkInOrder(c, i) ==
    /\ c \in CallIds
    /\ \A j \in 1..(i - 1) : calls[c].res[ReadOrder[j]].st # "pending"
    /\ ReadOk(c, ReadOrder[i])

LoadAnsweredInOrder ==
    \E c \in 1..MaxCalls :
        \/ \E i \in 1..Len(ReadOrder) : ReadOkInOrder(c, i)
        \/ RepairsOk(c)

NextDash ==
    \/ LoadData
    \/ \E view \in Views, confirmLeave \in BOOLEAN : HandleNavigate(view, confirmLeave)
    \/ \E b \in BOOLEAN : OnHasUnsavedChanges(b)
    \/ \E price \in FormPrices : SaveHouseClick(price)
    \/ SaveHouseStep
    \/ CostDashboardEffect
    \/ LoadAnsweredInOrder

SpecDash == InitDash /\ [][NextDash]_vars

-----------------------------------------------------------------------------
(* The sidebar navigation of one session, with the cost dashboards it mounts *)

NextNav ==
    \/ LoadData
    \/ \E view \in Views, confirmLeave \in BOOLEAN : HandleNavigate(view, confirmLeave)
    \/ \E b \in BOOLEAN : OnHasUnsavedChanges(b)
    \/ CostDashboardEffect
    \/ LoadAnsweredInOrder

SpecNav == InitDash /\ [][NextNav]_vars

-----------------------------------------------------------------------------
(* The delete, restore and account procedures over the rows of two users *)

StoreAppliances ==
    {x \in PoolAppliances : x.id \in {1, 2}} \cup OtherAppliances

StoreRepairs ==
    {[id |-> 4, appliance_id |-> 1, repair_cost |-> Some(150), deleted |-> FALSE],
     [id |-> 6, appliance_id |-> 2, repair_cost |-> Some(20), deleted |-> FALSE]}
        \cup OtherRepairs

StoreAttachments ==
    {[id |-> 11, appliance_id |-> 1, file_size |-> 1024, deleted |-> FALSE],
     [id |-> 12, appliance_id |-> 2, file_size |-> 1024, deleted |-> FALSE],
     [id |-> 111, appliance_id |-> 101, file_size |-> 1024, deleted |-> FALSE]}

StoreRooms ==
    {[id |-> 21, house_id |-> "H1", deleted |-> FALSE],
     [id |-> 121, house_id |-> "H2", deleted |-> FALSE]}

ApplianceKeys == {x.id : x \in StoreAppliances}

AttachmentKeys == {x.id : x \in StoreAttachments}

RoomKeys == {x.id : x \in StoreRooms}

\* Two users with a house each, and the session's account page; the cost
\* dashboard is mounted and its effect has not run.
InitStore ==
    /\ houses = {PlainHouse, OtherHouse}
    /\ appliances = StoreAppliances
    /\ repairs = StoreRepairs
    /\ attachments = StoreAttachments
    /\ features = OtherFeatures
    /\ maintenance = OtherMaintenance
    /\ rooms = StoreRooms
    /\ users = Users
    /\ account = NewAccountPage
    /\ PagesIdle
    /\ rowsInserted = 0
    /\ houseId = "H1"
    /\ cd = NewCostDashboard(1)
    /\ calls = <<>>
    /\ failedReads = 0
    /\ currentYear = 2026
    /\ mutated = FALSE
    /\ dash = DashboardUp
    /\ hd = NoHouseDetails
    /\ saves = <<>>

\* A procedure call or a delete by any signed-in user, naming any row.
TrashRequest ==
    \E u \in Users :
        \/ \E a \in ApplianceKeys : soft_delete_appliance(u, a)
        \/ \E a \in ApplianceKeys : restore_appliance(u, a)
        \/ \E a \in ApplianceKeys : permanent_delete_appliance(u, a)
        \/ \E t \in AttachmentKeys : DeleteAttachment(u, t)
        \/ \E r \in RoomKeys : soft_delete_room(u, r)
        \/ \E r \in RoomKeys : restore_room(u, r)
        \/ \E r \in RoomKeys : permanent_delete_room(u, r)

\* The delete section of the account page.
AccountStep ==
    \/ ShowDeleteConfirm
    \/ \E text \in ConfirmTexts : SetDeleteConfirmText(text)
    \/ handleDeleteAccount

NextStore == TrashRequest \/ AccountStep

SpecStore == InitStore /\ [][NextStore]_vars

-----------------------------------------------------------------------------
(* The appliance form with its FileUpload *)

\* The add-appliance form is open with a type chosen.
InitUpload ==
    /\ houses = {PlainHouse, OtherHouse}
    /\ appliances = OtherAppliances
    /\ repairs = OtherRepairs
    /\ attachments = {x \in StoreAttachments : x.appliance_id = 101}
    /\ features = OtherFeatures
    /\ maintenance = OtherMaintenance
    /\ rowsInserted = 0
    /\ houseId = "H1"
    /\ cd = NewCostDashboard(1)
    /\ calls = <<>>
    /\ failedReads = 0
    /\ currentYear = 2026
    /\ mutated = FALSE
    /\ dash = DashboardUp
    /\ hd = NoHouseDetails
    /\ saves = <<>>
    /\ rooms = {}
    /\ users = Users
    /\ account = NewAccountPage
    /\ uploadedFiles = <<>>
    /\ fileUpload = NewFileUpload
    /\ handed = {}
    /\ form = [NewForm("appliance", FALSE) EXCEPT !.fields["appliance_type"] = Some("x")]
    /\ issued = {}
    /\ storage = None
    /\ modal = NoModal
    /\ ViewsIdle

\* fileToBase64 of a call in flight settles.
ConversionSettled ==
    \E s \in 1..MaxSelections :
        \/ ConversionDone(s)
        \/ ConversionFailed(s)

NextUpload ==
    \/ \E sizes \in FileLists : handleFileSelect(sizes)
    \/ ConversionSettled
    \/ \E index \in 1..maxFiles : onRemoveFile(index)
    \/ \E in \in ApplianceInputs : saveAppliance(in)

SpecUpload == InitUpload /\ [][NextUpload]_vars

-----------------------------------------------------------------------------
(* The appliance form with requests that fail *)

NextSave ==
    \/ NextUpload
    \/ \E in \in ApplianceInputs, at \in SaveRequests : saveApplianceFailed(in, at)

SpecSave == InitUpload /\ [][NextSave]_vars

-----------------------------------------------------------------------------
(* The library functions: lib/currency.ts and the room-type plural.  A       *)
(* string that the functions take apart is a sequence of its characters; a   *)
(* currency symbol is the sequence of the code units of its literal.         *)

\* const currencyMap: the symbol of 'United Kingdom' is the literal of the
\* source file, the two characters U+00C2 U+00A3.
currencyMap ==
    [country \in {"United States", "Canada", "Mexico", "United Kingdom", "Other"} |->
        CASE country = "United States" ->
                [code |-> "USD", symbol |-> <<36>>, locale |-> "en-US"]
          [] country = "Canada" ->
                [code |-> "CAD", symbol |-> <<67, 36>>, locale |-> "en-CA"]
          [] country = "Mexico" ->
                [code |-> "MXN", symbol |-> <<77, 88, 36>>, locale |-> "es-MX"]
          [] country = "United Kingdom" ->
                [code |-> "GBP", symbol |-> <<194, 163>>, locale |-> "en-GB"]
          [] country = "Other" ->
                [code |-> "USD", symbol |-> <<36>>, locale |-> "en-US"]]

\* Property names every object literal inherits from Object.prototype.
InheritedKeys == {"constructor", "toString"}

\* The houses.country values a call is made with: null/undefined (None), the
\* selectors, the empty string, and other stored text (the column is text
\* without a check).
CountryValues ==
    {None} \cup {Some(c) : c \in DOMAIN currencyMap}
           \cup {Some(""), Some("France"), Some("constructor"), Some("toString")}

\* country || 'United States'
OrUnitedStates(country) ==
    IF country = None \/ country = Some("") THEN "United States" ELSE country[1]

\* A function's outcome: the exception it threw, or the value it returned
\* (None: undefined).
Threw(e) == [threw |-> Some(e), value |-> None]

Gave(v) == [threw |-> None, value |-> v]

\* getCurrencySymbol(country): currencyMap[key].symbol.  A key that names no
\* property gives undefined, and .symbol of undefined throws; an inherited
\* property is a function, and its .symbol is undefined.
getCurrencySymbol(country) ==
    LET key == OrUnitedStates(country)
    IN  IF key \in DOMAIN currencyMap THEN Gave(Some(currencyMap[key].symbol))
        ELSE IF key \in InheritedKeys THEN Gave(None)
        ELSE Threw("TypeError")

FractionDigits == {None, Some(0), Some(2), Some(3)}

Amounts == {0, 1500, 0 - 20}

\* a ?? b
OrElse(a, b) == IF a = None THEN b ELSE a[1]

\* Math.min
Min2(a, b) == IF a <= b THEN a ELSE b

\* formatCurrency(amount, country, options).  The text that
\* Intl.NumberFormat(locale, formatOptions).format(amount) renders is
\* determined by the locale, the currency, the digits and the amount, and is
\* kept as these; the constructor throws a RangeError for
\* minimumFractionDigits > maximumFractionDigits and a TypeError for the
\* currency style without a currency.
formatCurrency(amount, country, options) ==
    LET key == OrUnitedStates(country)
        maxFractionDigits == OrElse(options.maximumFractionDigits, 2)
        minFractionDigits ==
            OrElse(options.minimumFractionDigits, Min2(2, maxFractionDigits))
    IN  IF key \notin DOMAIN currencyMap
          THEN Threw("TypeError")   \* .code of undefined, or no currency
        ELSE IF minFractionDigits > maxFractionDigits
          THEN Threw("RangeError")
        ELSE Gave(Some([locale |-> currencyMap[key].locale,
                             currency |-> currencyMap[key].code,
                             minimumFractionDigits |-> minFractionDigits,
                             maximumFractionDigits |-> maxFractionDigits,
                             amount |-> amount]))

\* The characters of the room types of the model: letters of the suffix
\* rules in both cases, a letter of no rule, and the space.
Letters == {" ", "a", "c", "h", "s", "S", "x", "y", "Y", "z"}

MaxNameLen == 3

RECURSIVE NamesOfLength(_)
NamesOfLength(n) ==
    IF n = 0 THEN {<<>>}
    ELSE {Append(w, c) : w \in NamesOfLength(n - 1), c \in Letters}

\* Room types of the form's list and of its free text.
ListedRoomTypes ==
    { <<"B", "e", "d", "r", "o", "o", "m">>,
      <<"L", "i", "v", "i", "n", "g", " ", "R", "o", "o", "m">>,
      <<"F", "a", "m", "i", "l", "y">>,
      <<"P", "a", "t", "i", "o">>,
      <<"B", "e", "n", "c", "h">> }

RoomTypes == UNION {NamesOfLength(n) : n \in 0..MaxNameLen} \cup ListedRoomTypes

Counts == {0, 1, 2, 3}

\* String.prototype.toLowerCase, a character at a time.
toLowerCase(word) ==
    [i \in 1..Len(word) |->
        CASE word[i] = "S" -> "s"
          [] word[i] = "Y" -> "y"
          [] word[i] = "B" -> "b"
          [] word[i] = "F" -> "f"
          [] word[i] = "L" -> "l"
          [] word[i] = "P" -> "p"
          [] word[i] = "R" -> "r"
          [] OTHER -> word[i]]

\* String.prototype.endsWith
endsWith(word, suffix) ==
    /\ Len(suffix) <= Len(word)
    /\ SubSeq(word, Len(word) - Len(suffix) + 1, Len(word)) = suffix

\* The suffix rules tested on the word as it is written.
pluralizeWordAsWritten(word) ==
    IF endsWith(word, <<"y">>)
      THEN SubSeq(word, 1, Len(word) - 1) \o <<"i", "e", "s">>
    ELSE IF \/ endsWith(word, <<"c", "h">>)
            \/ endsWith(word, <<"s", "h">>)
            \/ endsWith(word, <<"s">>)
            \/ endsWith(word, <<"x">>)
            \/ endsWith(word, <<"z">>)
      THEN word \o <<"e", "s">>
    ELSE word \o <<"s">>

\* pluralizeWord
pluralizeWord(word) ==
    IF endsWith(toLowerCase(word), <<"y">>)
      THEN SubSeq(word, 1, Len(word) - 1) \o <<"i", "e", "s">>    \* slice(0, -1) + 'ies'
    ELSE IF \/ endsWith(toLowerCase(word), <<"c", "h">>)
            \/ endsWith(toLowerCase(word), <<"s", "h">>)
            \/ endsWith(toLowerCase(word), <<"s">>)
            \/ endsWith(toLowerCase(word), <<"x">>)
            \/ endsWith(toLowerCase(word), <<"z">>)
      THEN word \o <<"e", "s">>
    ELSE word \o <<"s">>

\* roomType.includes(' ')
includesSpace(s) == \E i \in 1..Len(s) : s[i] = " "

\* roomType.split(' '): the words between the spaces, empty ones included.
RECURSIVE split(_)
split(s) ==
    IF ~includesSpace(s) THEN <<s>>
    ELSE LET i == CHOOSE k \in 1..Len(s) :
                    s[k] = " " /\ \A j \in 1..(k - 1) : s[j] # " "
         IN  <<SubSeq(s, 1, i - 1)>> \o split(SubSeq(s, i + 1, Len(s)))

\* words.join(' ')
RECURSIVE join(_)
join(words) ==
    IF Len(words) = 0 THEN <<>>
    ELSE IF Len(words) = 1 THEN words[1]
    ELSE words[1] \o <<" ">> \o join(Tail(words))

\* pluralizeRoomType(roomType, count)
pluralizeRoomType(roomType, count) ==
    IF count <= 1 THEN roomType
    ELSE IF includesSpace(roomType)
      THEN LET words == split(roomType)
               lastWord == words[Len(words)]
           IN  join([words EXCEPT ![Len(words)] = pluralizeWord(lastWord)])
    ELSE pluralizeWord(roomType)

\* A call of a function with what it gave.
Applied(fn, args, result) == [fn |-> fn, args |-> args, result |-> result]

\* What a call leaves alone: the functions keep no state.
LibOnly ==
    UNCHANGED <<uiVars, storeVars, houseId, cd, calls, failedReads, currentYear,
                mutated, rooms, users, account, uploadVars, form, issued,
                confirmVars, lists, deleting, roomEditor>>

\* The calls are followed one at a time, each from the page that made none.
CallGetCurrencySymbol(country) ==
    /\ applied = NotApplied
    /\ applied' = Applied("getCurrencySymbol", <<country>>, getCurrencySymbol(country))
    /\ LibOnly

CallFormatCurrency(amount, country, options) ==
    /\ applied = NotApplied
    /\ applied' = Applied("formatCurrency", <<amount, country, options>>,
                          formatCurrency(amount, country, options))
    /\ LibOnly

CallPluralizeRoomType(roomType, count) ==
    /\ applied = NotApplied
    /\ applied' = Applied("pluralizeRoomType", <<roomType, count>>,
                          Gave(Some(pluralizeRoomType(roomType, count))))
    /\ LibOnly

\* A page that has made no call yet.
InitLib ==
    /\ houses = {PlainHouse}
    /\ appliances = {}
    /\ repairs = {}
    /\ attachments = {}
    /\ features = {}
    /\ maintenance = {}
    /\ rowsInserted = 0
    /\ houseId = "H1"
    /\ cd = NewCostDashboard(1)
    /\ calls = <<>>
    /\ failedReads = 0
    /\ currentYear = 2026
    /\ mutated = FALSE
    /\ dash = DashboardUp
    /\ hd = NoHouseDetails
    /\ saves = <<>>
    /\ EditorsIdle

\* The label of a room of the list: its type in the plural of its count.
RoomLabel ==
    /\ applied = NotApplied
    /\ \E roomType \in RoomTypes, count \in Counts :
            CallPluralizeRoomType(roomType, count)

NextLib ==
    \/ \E country \in CountryValues : CallGetCurrencySymbol(country)
    \/ \E amount \in Amounts, country \in CountryValues,
          min \in FractionDigits, max \in FractionDigits :
            CallFormatCurrency(amount, country,
                [minimumFractionDigits |-> min, maximumFractionDigits |-> max])
    \/ RoomLabel

SpecLib == InitLib /\ [][NextLib]_vars

-----------------------------------------------------------------------------
(* The record forms of one session *)

FormFields == UNION {RequiredFields(kind) : kind \in FormKinds}

\* The session's house with two appliances and a room, and no form open.
InitForms ==
    /\ houses = {PlainHouse, OtherHouse}
    /\ appliances = StoreAppliances
    /\ repairs = OtherRepairs
    /\ attachments = {x \in StoreAttachments : x.appliance_id = 101}
    /\ features = OtherFeatures
    /\ maintenance = OtherMaintenance
    /\ rowsInserted = 0
    /\ houseId = "H1"
    /\ cd = NewCostDashboard(1)
    /\ calls = <<>>
    /\ failedReads = 0
    /\ currentYear = 2026
    /\ mutated = FALSE
    /\ dash = DashboardUp
    /\ hd = NoHouseDetails
    /\ saves = <<>>
    /\ rooms = StoreRooms
    /\ users = Users
    /\ account = NewAccountPage
    /\ PagesIdle

\* A form is opened, filled in or cancelled.
FormEdit ==
    \/ \E kind \in FormKinds, editing \in BOOLEAN : OpenForm(kind, editing)
    \/ CloseForm
    \/ \E f \in FormFields, v \in TypedValues : SetField(f, v)

\* The save button of the open form is clicked.
FormSave ==
    \/ saveFeature
    \/ saveMaintenance
    \/ \E a \in {1, 2} : addRepair(a)
    \/ \E in \in ApplianceInputs : saveAppliance(in)
    \/ updateAppliance
    \/ addRoom
    \/ saveEditedRoom

NextForms == FormEdit \/ FormSave

SpecForms == InitForms /\ [][NextForms]_vars

-----------------------------------------------------------------------------
(* The delete buttons of the editors and the confirmation modal *)

DeleteKeys == {x.id : x \in StoreRooms \cup StoreAppliances \cup StoreRepairs
                              \cup StoreAttachments \cup PoolFeatures \cup PoolMaintenance}

\* The session's house with rows of the six item types, another user's rows,
\* nothing in localStorage, and the modal closed.
InitConfirm ==
    /\ houses = {PlainHouse, OtherHouse}
    /\ appliances = StoreAppliances
    /\ repairs = StoreRepairs
    /\ attachments = StoreAttachments
    /\ features = PoolFeatures \cup OtherFeatures
    /\ maintenance = PoolMaintenance \cup OtherMaintenance
    /\ rooms = StoreRooms
    /\ users = Users
    /\ account = NewAccountPage
    /\ PagesIdle
    /\ rowsInserted = 0
    /\ houseId = "H1"
    /\ cd = NewCostDashboard(1)
    /\ calls = <<>>
    /\ failedReads = 0
    /\ currentYear = 2026
    /\ mutated = FALSE
    /\ dash = DashboardUp
    /\ hd = NoHouseDetails
    /\ saves = <<>>

NextConfirm ==
    \/ \E type \in DeleteTypes, id \in DeleteKeys : handleDeleteClick(type, id)
    \/ \E checked \in BOOLEAN : SetDontShowAgain(checked)
    \/ handleConfirm
    \/ onClose
    \/ ReloadPage

SpecConfirm == InitConfirm /\ [][NextConfirm]_vars

-----------------------------------------------------------------------------
(* The lists of the editors and their delete handlers *)

\* Two rows of each item type in the session's house, and another user's.
ListRooms == StoreRooms \cup {[id |-> 22, house_id |-> "H1", deleted |-> FALSE]}

ListFeatures == PoolFeatures \cup OtherFeatures

ListMaintenance == {[x EXCEPT !.deleted = FALSE] : x \in PoolMaintenance} \cup OtherMaintenance

ListKeys == {x.id : x \in ListRooms \cup StoreAppliances \cup StoreRepairs
                            \cup StoreAttachments \cup ListFeatures \cup ListMaintenance}

\* The lists of the editor of a view: HouseDetails, InteriorAppliances,
\* ExteriorManagement.
ListsOfView ==
    [house |-> {"room"},
     interior |-> {"appliance", "repair", "attachment"},
     exterior |-> {"feature", "maintenance"}]

\* The editor of one view is mounted and has loaded its lists from the store.
InitLists ==
    /\ houses = {PlainHouse, OtherHouse}
    /\ appliances = StoreAppliances
    /\ repairs = StoreRepairs
    /\ attachments = StoreAttachments
    /\ features = ListFeatures
    /\ maintenance = ListMaintenance
    /\ rooms = ListRooms
    /\ users = Users
    /\ account = NewAccountPage
    /\ uploadedFiles = <<>>
    /\ fileUpload = [NewFileUpload EXCEPT !.mounted = FALSE]
    /\ handed = {}
    /\ form = NoForm
    /\ issued = {}
    /\ storage = None
    /\ modal = NoModal
    /\ applied = NotApplied
    /\ deleting = {}
    /\ roomEditor = NoRoomEditor
    /\ rowsInserted = 0
    /\ houseId = "H1"
    /\ \E view \in DOMAIN ListsOfView :
            lists = [type \in DeleteTypes |->
                        IF type \in ListsOfView[view] THEN Listed(type) ELSE {}]
    /\ cd = NewCostDashboard(1)
    /\ calls = <<>>
    /\ failedReads = 0
    /\ currentYear = 2026
    /\ mutated = FALSE
    /\ dash = DashboardUp
    /\ hd = NoHouseDetails
    /\ saves = <<>>

NextLists ==
    \/ \E type \in DeleteTypes, id \in ListKeys : deleteStarted(type, id)
    \/ deleteAnswered
    \/ deleteFailed

SpecLists == InitLists /\ [][NextLists]_vars

-----------------------------------------------------------------------------
(* The room list of HouseDetails and its edit form *)

\* The columns of a room that the edit form shows.
RoomFields == {"room_type", "room_type_other", "count", "notes",
               "basement_details", "garage_details"}

\* The session's house has a garage; another user's house has a room.
EditRooms ==
    {[id |-> 21, house_id |-> "H1", deleted |-> FALSE, room_type |-> "Garage",
      room_type_other |-> None, count |-> 1, notes |-> None,
      basement_details |-> None, garage_details |-> Some([one_car |-> TRUE])],
     [id |-> 121, house_id |-> "H2", deleted |-> FALSE, room_type |-> "Other",
      room_type_other |-> Some("Nook"), count |-> 2, notes |-> None,
      basement_details |-> None, garage_details |-> None]}

\* What the inputs of the edit form can store in a field: the options of the
\* select (the first is "Select room type..."), typed text, the parsed count.
EditValues ==
    [room_type |-> {"", "Garage", "Basement", "Other"},
     room_type_other |-> {Some("Nook")},
     count |-> {1, 2},
     notes |-> {Some("dry")}]

\* The checkbox of a details field that the model follows, and the room type
\* under which the form shows it.
DetailBox == [basement_details |-> "finished", garage_details |-> "one_car"]

DetailType == [basement_details |-> "Basement", garage_details |-> "Garage"]

\* { ...details, [box]: checked }: the spread of null adds nothing.
Checked(details, box, checked) ==
    IF details = None THEN Some([b \in {box} |-> checked])
    ELSE Some([details[1] EXCEPT ![box] = checked])

\* { ...r, ...e }
Merge(r, e) == [k \in DOMAIN r |-> IF k \in DOMAIN e THEN e[k] ELSE r[k]]

\* What the room editor leaves alone.
RoomEditorOnly ==
    UNCHANGED <<uiVars, storeVars, houseId, cd, calls, currentYear, mutated, users,
                account, uploadVars, form, issued, confirmVars, applied, lists,
                deleting>>

\* supabase.from('rooms').select('*').eq('house_id', houseId).is('deleted_at', null)
\* of loadHouseData, and setRooms(roomsRes.data).
LoadedRooms == {x \in rooms : x.house_id = houseId /\ ~x.deleted}

\* startEditRoom(room): the pencil button of a room of the list.
startEditRoom(id) ==
    /\ \E room \in roomEditor.rooms :
            /\ room.id = id
            /\ roomEditor' = [roomEditor EXCEPT !.editingRoomId = Some(id),
                                                !.editedRoom = room]
    /\ UNCHANGED <<rooms, failedReads>>
    /\ RoomEditorOnly

\* cancelEditRoom
cancelEditRoom ==
    /\ roomEditor.editingRoomId # None
    /\ roomEditor' = [roomEditor EXCEPT !.editingRoomId = None, !.editedRoom = NoEdit]
    /\ UNCHANGED <<rooms, failedReads>>
    /\ RoomEditorOnly

\* onChange of the select, of the "Please specify..." input (shown for
\* 'Other'), of the count or of the notes:
\* setEditedRoom({ ...editedRoom, [f]: value }).
setEditedRoom(f, v) ==
    /\ roomEditor.editingRoomId # None
    /\ f = "room_type_other" => roomEditor.editedRoom.room_type = "Other"
    /\ roomEditor.editedRoom[f] # v
    /\ roomEditor' = [roomEditor EXCEPT !.editedRoom[f] = v]
    /\ UNCHANGED <<rooms, failedReads>>
    /\ RoomEditorOnly

\* onChange of a checkbox of the basement type (shown for 'Basement') or of
\* the garage capacity (shown for 'Garage').
toggleDetail(f) ==
    /\ roomEditor.editingRoomId # None
    /\ roomEditor.editedRoom.room_type = DetailType[f]
    /\ LET details == roomEditor.editedRoom[f]
           box == DetailBox[f]
           shown == details # None /\ details[1][box]
       IN  roomEditor' = [roomEditor EXCEPT !.editedRoom[f] = Checked(details, box, ~shown)]
    /\ UNCHANGED <<rooms, failedReads>>
    /\ RoomEditorOnly

\* The row after .update({ room_type, count, notes, basement_details }).
Updated(row, e) ==
    [row EXCEPT !.room_type = e.room_type, !.count = e.count, !.notes = e.notes,
                !.basement_details = e.basement_details]

\* saveEditedRoom with a room type chosen, the update answered without an
\* error: the policy lets the owner of the house update the row; the list gets
\* the merged room and the form closes.
roomUpdated ==
    /\ roomEditor.editingRoomId # None
    /\ roomEditor.editedRoom.room_type # ""
    /\ LET id == roomEditor.editingRoomId[1]
           e == roomEditor.editedRoom
       IN  /\ rooms' = {IF x.id = id /\ OwnsHouse(SessionUser, x.house_id)
                          THEN Updated(x, e) ELSE x : x \in rooms}
           /\ roomEditor' = [rooms |-> {IF r.id = id THEN Merge(r, e) ELSE r :
                                            r \in roomEditor.rooms},
                             editingRoomId |-> None,
                             editedRoom |-> NoEdit]
    /\ UNCHANGED failedReads
    /\ RoomEditorOnly

\* saveEditedRoom, the update answered with an error: the catch logs.
roomUpdateFailed ==
    /\ roomEditor.editingRoomId # None
    /\ roomEditor.editedRoom.room_type # ""
    /\ failedReads < MaxFailedReads
    /\ failedReads' = failedReads + 1
    /\ UNCHANGED <<rooms, roomEditor>>
    /\ RoomEditorOnly

\* HouseDetails has loaded the rooms of the session's house.
InitRooms ==
    /\ houses = {PlainHouse, OtherHouse}
    /\ appliances = StoreAppliances
    /\ repairs = StoreRepairs
    /\ attachments = StoreAttachments
    /\ features = OtherFeatures
    /\ maintenance = OtherMaintenance
    /\ rooms = EditRooms
    /\ users = Users
    /\ account = NewAccountPage
    /\ uploadedFiles = <<>>
    /\ fileUpload = [NewFileUpload EXCEPT !.mounted = FALSE]
    /\ handed = {}
    /\ form = NoForm
    /\ issued = {}
    /\ storage = None
    /\ modal = NoModal
    /\ applied = NotApplied
    /\ lists = NoLists
    /\ deleting = {}
    /\ rowsInserted = 0
    /\ houseId = "H1"
    /\ roomEditor = [NoRoomEditor EXCEPT !.rooms = LoadedRooms]
    /\ cd = NewCostDashboard(1)
    /\ calls = <<>>
    /\ failedReads = 0
    /\ currentYear = 2026
    /\ mutated = FALSE
    /\ dash = DashboardUp
    /\ hd = NoHouseDetails
    /\ saves = <<>>

NextRooms ==
    \/ \E id \in RoomKeys : startEditRoom(id)
    \/ cancelEditRoom
    \/ \E v \in EditValues.room_type : setEditedRoom("room_type", v)
    \/ \E v \in EditValues.room_type_other : setEditedRoom("room_type_other", v)
    \/ \E v \in EditValues.count : setEditedRoom("count", v)
    \/ \E v \in EditValues.notes : setEditedRoom("notes", v)
    \/ \E f \in DOMAIN DetailBox : toggleDetail(f)
    \/ roomUpdated
    \/ roomUpdateFailed

SpecRooms == InitRooms /\ [][NextRooms]_vars

-----------------------------------------------------------------------------
(* Properties of the cost breakdown *)

\* The loadCosts call whose breakdown the mounted dashboard shows: it ran to
\* setCosts in the mounted instance, and no later call of the instance did.
Showing(c) ==
    /\ c \in CallIds
    /\ cd.shown = c
    /\ calls[c].end = "stored"
    /\ calls[c].inst = cd.inst

\* Every read the call issued was answered with rows.
AllAnswered(c) ==
    /\ \A q \in ReadNames : calls[c].res[q].st = "ok"
    /\ calls[c].rep.st \in {"ok", "none"}

\* The rows a read returned, as a set.
RowSet(res) == {res.rows[i] : i \in 1..Len(res.rows)}

\* The sum of a column over a set of rows, a null counting 0.
RECURSIVE ColumnSum(_, _)
ColumnSum(S, field) ==
    IF S = {} THEN 0
    ELSE LET x == CHOOSE y \in S : TRUE
         IN  (IF x[field] = None THEN 0 ELSE x[field][1]) + ColumnSum(S \ {x}, field)

\* The sequences that list the rows of a sequence in another order.
Reorderings(rows) ==
    LET n == Len(rows)
        P == {f \in [1..n -> 1..n] : \A i, j \in 1..n : f[i] = f[j] => i = j}
    IN  {[i \in 1..n |-> rows[f[i]]] : f \in P}

\* C1: in every breakdown the dashboard holds, totalCost is the sum of the
\* six components, and the sum of a column over the rows of a read is the
\* same in whatever order the rows come.
C1_TotalIsSumOfSix ==
    /\ cd.costs.totalCost =
          cd.costs.housePurchase + cd.costs.appliances
          + cd.costs.applianceInstallation + cd.costs.applianceRepairs
          + cd.costs.exteriorFeatures + cd.costs.exteriorMaintenance
    /\ \A c \in CallIds :
          /\ \A p \in Reorderings(calls[c].res["appliances"].rows) :
                /\ Reduce(p, "purchase_cost")
                     = Reduce(calls[c].res["appliances"].rows, "purchase_cost")
                /\ Reduce(p, "installation_cost")
                     = Reduce(calls[c].res["appliances"].rows, "installation_cost")
          /\ \A p \in Reorderings(calls[c].rep.rows) :
                Reduce(p, "repair_cost") = Reduce(calls[c].rep.rows, "repair_cost")
          /\ \A p \in Reorderings(calls[c].res["features"].rows) :
                Reduce(p, "build_cost") = Reduce(calls[c].res["features"].rows, "build_cost")
          /\ \A p \in Reorderings(calls[c].res["maintenance"].rows) :
                Reduce(p, "cost") = Reduce(calls[c].res["maintenance"].rows, "cost")

\* A breakdown is shown in which all six components are non-zero.
C1_Witness ==
    /\ Showing(1)
    /\ AllAnswered(1)
    /\ cd.costs.housePurchase > 0 /\ cd.costs.appliances > 0
    /\ cd.costs.applianceInstallation > 0 /\ cd.costs.applianceRepairs > 0
    /\ cd.costs.exteriorFeatures > 0 /\ cd.costs.exteriorMaintenance > 0
    /\ Len(calls[1].res["appliances"].rows) > 1

\* The house row a call read, when it read one.
HouseRead(c) == calls[c].res["house"].rows

\* The store of the end-to-end scenario: the house bought for 300000, one
\* appliance (1200 and 300), one repair of it (150), one feature (5000) and
\* one maintenance record (800).
ScenarioStore ==
    /\ {x \in houses : x.id = "H1"} = {PlainHouse}
    /\ {x \in appliances : x.house_id = "H1"} = {x \in PoolAppliances : x.id = 1}
    /\ {x \in repairs : x.appliance_id = 1} = {x \in PoolRepairs : x.id = 4}
    /\ {x \in features : x.house_id = "H1"} = {x \in PoolFeatures : x.id = 7}
    /\ {x \in maintenance : x.house_id = "H1"} = {x \in PoolMaintenance : x.id = 9}

\* C2: when the reads of a loadCosts call are answered, each component of
\* the breakdown is the sum of its column over the fetched rows, a null
\* counting 0, and housePurchase is the price paid or 0; a house with no
\* sub-records gives zeros next to housePurchase; the end-to-end scenario
\* gives a total of 307450.
C2_ComponentSums ==
    \A c \in CallIds :
        Showing(c) /\ AllAnswered(c) =>
            LET r == calls[c].res
                paid == IF HouseRead(c) = <<>> \/ HouseRead(c)[1].price_paid = None
                          THEN 0 ELSE HouseRead(c)[1].price_paid[1]
            IN  /\ cd.costs.housePurchase = paid
                /\ cd.costs.appliances = ColumnSum(RowSet(r["appliances"]), "purchase_cost")
                /\ cd.costs.applianceInstallation
                     = ColumnSum(RowSet(r["appliances"]), "installation_cost")
                /\ cd.costs.applianceRepairs = ColumnSum(RowSet(calls[c].rep), "repair_cost")
                /\ cd.costs.exteriorFeatures = ColumnSum(RowSet(r["features"]), "build_cost")
                /\ cd.costs.exteriorMaintenance = ColumnSum(RowSet(r["maintenance"]), "cost")
                /\ (/\ r["appliances"].rows = <<>>
                    /\ r["features"].rows = <<>>
                    /\ r["maintenance"].rows = <<>>)
                   => cd.costs = [InitialCosts EXCEPT !.housePurchase = paid,
                                                      !.totalCost = paid]
                /\ ScenarioStore => cd.costs.totalCost = 307450

\* The dashboard shows the breakdown of the end-to-end scenario.
C2_Witness ==
    /\ Showing(1)
    /\ AllAnswered(1)
    /\ ScenarioStore
    /\ cd.costs = [housePurchase |-> 300000, appliances |-> 1200,
                   applianceInstallation |-> 300, applianceRepairs |-> 150,
                   exteriorFeatures |-> 5000, exteriorMaintenance |-> 800,
                   totalCost |-> 307450]

\* The rows of a table that are not soft-deleted.
Active(t) == {x \in t : ~x.deleted}

\* C3: no row that is soft-deleted when it is read is ever among the rows a
\* loadCosts call counts: the appliance, repair, feature and maintenance
\* components are sums over rows read as not deleted, and when the store
\* is not changed while the call runs they are sums over rows that are
\* not deleted in the store, whatever sequence of inserts, soft-deletes,
\* restores and permanent deletes produced it.
C3_NoSoftDeletedRowCounted ==
    \A c \in CallIds :
        LET r == calls[c].res
            h == calls[c].house
        IN  /\ \A q \in {"appliances", "features", "maintenance"} :
                  \A x \in RowSet(r[q]) : ~x.deleted
            /\ \A x \in RowSet(calls[c].rep) : ~x.deleted
            /\ Showing(c) =>
                  /\ cd.costs.appliances
                       = ColumnSum(RowSet(r["appliances"]), "purchase_cost")
                  /\ cd.costs.applianceInstallation
                       = ColumnSum(RowSet(r["appliances"]), "installation_cost")
                  /\ cd.costs.applianceRepairs
                       = ColumnSum(RowSet(calls[c].rep), "repair_cost")
                  /\ cd.costs.exteriorFeatures
                       = ColumnSum(RowSet(r["features"]), "build_cost")
                  /\ cd.costs.exteriorMaintenance
                       = ColumnSum(RowSet(r["maintenance"]), "cost")
            /\ Showing(c) /\ ~mutated =>
                  /\ RowSet(r["appliances"]) = {x \in Active(appliances) : x.house_id = h}
                  /\ RowSet(r["features"]) = {x \in Active(features) : x.house_id = h}
                  /\ RowSet(r["maintenance"]) = {x \in Active(maintenance) : x.house_id = h}
                  /\ RowSet(calls[c].rep) \subseteq Active(repairs)

\* A breakdown is shown that leaves out the 1200 of a soft-deleted appliance
\* of the house.
C3_Witness ==
    /\ Showing(1)
    /\ ~mutated
    /\ \E x \in appliances :
          x.house_id = "H1" /\ x.deleted /\ x.purchase_cost = Some(1200)
    /\ cd.costs.appliances = 0
    /\ cd.costs.totalCost = 300000

\* The non-deleted repairs whose owning appliance is one of a set.
RepairsOf(as) == {x \in Active(repairs) : \E a \in as : a.id = x.appliance_id}

C5_NoApplianceNoRepairRead ==
    \A c \in CallIds :
        LET a == calls[c].res["appliances"]
        IN  a.st = "ok" /\ a.rows = <<>> =>
                /\ calls[c].rep = NotIssued
                /\ calls[c].pc # "phase2"
                /\ Showing(c) => cd.costs.applianceRepairs = 0

\* A call ran to the end on a house with features or maintenance and no
\* appliance, without a repair read.
C5_Witness ==
    /\ Showing(1)
    /\ AllAnswered(1)
    /\ calls[1].res["appliances"].rows = <<>>
    /\ calls[1].rep = NotIssued
    /\ cd.costs.applianceRepairs = 0
    /\ cd.costs.totalCost > cd.costs.housePurchase

\* C8: the repair read is issued only when all four reads of phase 1 are
\* answered, with exactly the ids of the rows the appliance read returned
\* as its keys; until then each pending read of phase 1 can be answered
\* next, whichever of the others are answered.
C8_RepairReadAfterPhase1 ==
    \A c \in CallIds :
        /\ calls[c].rep.st # "none" =>
              /\ \A q \in ReadNames : calls[c].res[q].st # "pending"
              /\ calls[c].keys = {x.id : x \in RowSet(calls[c].res["appliances"])}
              /\ calls[c].keys # {}
        /\ calls[c].pc = "phase1" =>
              /\ calls[c].rep = NotIssued
              /\ \E q \in ReadNames : calls[c].res[q].st = "pending"
              /\ \A q \in ReadNames :
                    calls[c].res[q].st = "pending" => ENABLED ReadOk(c, q)

\* The repair read is in flight with the ids the appliance read returned,
\* which are no longer the ids of the non-deleted appliances of the house.
C8_Witness ==
    /\ calls # <<>>
    /\ calls[1].pc = "phase2"
    /\ calls[1].rep = Pending
    /\ calls[1].keys # {}
    /\ calls[1].keys # {x.id : x \in {y \in Active(appliances) : y.house_id = "H1"}}

\* A read of the call failed: it was answered {data: null, error} or rejected.
ReadFailed(c) ==
    \/ \E q \in ReadNames : calls[c].res[q].st = "error"
    \/ calls[c].rep.st = "error"

\* C6: when a read of the last loadCosts call of the mounted dashboard has
\* failed and the call is over, the dashboard does not show a cost breakdown:
\* no zero standing for the failed read is presented as final.
C6_FailedLoadShowsNoBreakdown ==
    \A c \in CallIds :
        /\ c = Len(calls)
        /\ calls[c].inst = cd.inst
        /\ calls[c].pc = "done"
        /\ ReadFailed(c)
        => Rendered # "breakdown"

\* C9: with the house row read, profit is absent exactly when the house has
\* no sale price, and is the sale price less totalCost otherwise, a sale
\* price of 0 included.
C9_ProfitIffSalePrice ==
    \A c \in CallIds :
        Showing(c) /\ AllAnswered(c) /\ HouseRead(c) # <<>> =>
            LET sold == HouseRead(c)[1].price_sold
            IN  profit = IF sold = None THEN None
                         ELSE Some(sold[1] - cd.costs.totalCost)

\* C10: with the house row read, yearsOwned is absent when the purchase year
\* is absent, the sale year less the purchase year when both are present,
\* and the current year less the purchase year when only the purchase year
\* is present.
C10_YearsOwnedRules ==
    \A c \in CallIds :
        Showing(c) /\ AllAnswered(c) /\ HouseRead(c) # <<>> =>
            LET bought == HouseRead(c)[1].year_bought
                sold == HouseRead(c)[1].year_sold
            IN  yearsOwned = IF bought = None THEN None
                             ELSE IF sold # None THEN Some(sold[1] - bought[1])
                             ELSE Some(currentYear - bought[1])

\* The loadCosts calls of the mounted CostDashboard.
CallsOfMounted == {c \in CallIds : calls[c].inst = cd.inst}

\* C7: the result of a loadCosts call whose CostDashboard was unmounted, or
\* whose houseId was replaced while it ran, is discarded: no breakdown of
\* an unmounted instance's call is shown, and when every call of the
\* mounted CostDashboard is over the breakdown shown is that of the call
\* started last, computed for the current houseId.
C7_SupersededResultDiscarded ==
    /\ cd.shown # 0 => cd.shown \in CallsOfMounted
    /\ (/\ cd.inst # 0
        /\ ~cd.effect
        /\ CallsOfMounted # {}
        /\ \A c \in CallsOfMounted : calls[c].pc = "done")
       => LET last == CHOOSE c \in CallsOfMounted : \A d \in CallsOfMounted : d <= c
          IN  /\ calls[last].house = houseId
              /\ cd.costs = Breakdown(calls[last].res, calls[last].rep)

\* C11: a per-year figure is rendered only when yearsOwned is present and
\* greater than 0, and it is then totalCost / yearsOwned; when yearsOwned
\* is 0, negative or absent no figure is rendered and nothing is divided.
C11_CostPerYearOnlyForPositiveYears ==
    /\ costPerYear # None <=> (yearsOwned # None /\ yearsOwned[1] > 0)
    /\ costPerYear # None =>
          /\ costPerYear[1].whole * yearsOwned[1] + costPerYear[1].rest
               = cd.costs.totalCost
          /\ costPerYear[1].rest \in 0..(yearsOwned[1] - 1)

\* A breakdown is shown for a house owned for 16 years, with a per-year
\* figure of 18750; others are shown with yearsOwned 0 and negative.
C11_Witness ==
    /\ Showing(1)
    /\ Rendered = "breakdown"
    /\ yearsOwned = Some(16)
    /\ cd.costs.totalCost = 300000
    /\ costPerYear = Some([whole |-> 18750, rest |-> 0])

\* The results of a call as they are for a house that differs from the
\* call's house in its sale price and sale year only.
WithSale(r, sold, soldYear) ==
    IF r["house"].st # "ok" \/ r["house"].rows = <<>> THEN r
    ELSE [r EXCEPT !["house"].rows =
              <<[r["house"].rows[1] EXCEPT !.price_sold = sold, !.year_sold = soldYear]>>]

\* C12: the breakdown does not depend on the sale status: it is the one
\* loadCosts computes for every house with the same purchase price and the
\* same child rows and any other sale price and sale year, present or
\* absent, and it is determined by the purchase price and the non-deleted
\* child rows of the house alone.
C12_BreakdownIndependentOfSale ==
    \A c \in CallIds :
        Showing(c) /\ AllAnswered(c) =>
            /\ \A sold \in PricesSold, soldYear \in YearsSold :
                  Breakdown(WithSale(calls[c].res, sold, soldYear), calls[c].rep) = cd.costs
            /\ LET h == calls[c].house
                   hs == {x \in houses : x.id = h}
                   as == {x \in Active(appliances) : x.house_id = h}
                   hp == ColumnSum(hs, "price_paid")
                   ap == ColumnSum(as, "purchase_cost")
                   ai == ColumnSum(as, "installation_cost")
                   ar == ColumnSum(RepairsOf(as), "repair_cost")
                   ef == ColumnSum({x \in Active(features) : x.house_id = h}, "build_cost")
                   em == ColumnSum({x \in Active(maintenance) : x.house_id = h}, "cost")
               IN  cd.costs = [housePurchase |-> hp, appliances |-> ap,
                               applianceInstallation |-> ai, applianceRepairs |-> ar,
                               exteriorFeatures |-> ef, exteriorMaintenance |-> em,
                               totalCost |-> hp + ap + ai + ar + ef + em]

\* The breakdown of a house sold in 2020 for 400000 is shown, with the total
\* 307495 that the same rows give for the house when it is not sold.
C12_Witness ==
    /\ Showing(1)
    /\ AllAnswered(1)
    /\ HouseRead(1) # <<>>
    /\ HouseRead(1)[1].price_sold = Some(400000)
    /\ HouseRead(1)[1].year_sold = Some(2020)
    /\ cd.costs.totalCost = 307495

\* C13: no step removes an exterior feature, an exterior maintenance record or
\* an appliance repair from the store, except that a repair goes together
\* with its appliance when the appliance is permanently deleted; a delete
\* through an editor leaves the row in its table with its deletion marker set.
C13_EditorDeleteKeepsRow ==
    [][/\ \A x \in features : \E y \in features' : y.id = x.id
       /\ \A x \in maintenance : \E y \in maintenance' : y.id = x.id
       /\ \A x \in repairs :
             \/ \E y \in repairs' : y.id = x.id
             \/ /\ \E a \in appliances : a.id = x.appliance_id
                /\ ~\E a \in appliances' : a.id = x.appliance_id]_vars

-----------------------------------------------------------------------------
(* Properties of the delete, restore and account procedures *)

\* C14: a step that is permanent_delete_appliance(a) called by the owner of
\* the appliance's house ends with no appliance row of id a and no repair or
\* attachment row of appliance a, soft-deleted or not, and with every other
\* row of every table as it was.
C14_PermanentDeleteRemovesApplianceAndChildren ==
    [][\A u \in Users, a \in ApplianceKeys :
          OwnsAppliance(u, a) /\ permanent_delete_appliance(u, a) =>
              /\ ~\E x \in appliances' : x.id = a
              /\ ~\E x \in repairs' : x.appliance_id = a
              /\ ~\E x \in attachments' : x.appliance_id = a
              /\ {x \in appliances' : x.id # a} = {x \in appliances : x.id # a}
              /\ {x \in repairs' : x.appliance_id # a} = {x \in repairs : x.appliance_id # a}
              /\ {x \in attachments' : x.appliance_id # a} =
                     {x \in attachments : x.appliance_id # a}
              /\ UNCHANGED <<houses, rooms, features, maintenance, users>>]_vars

\* Appliance 1 of house H1, which had a repair and an attachment, is gone
\* with both, and appliance 2 of the house and appliance 101 of the other
\* user have their repairs and attachments.
C14_Witness ==
    /\ ~\E x \in appliances : x.id = 1
    /\ ~\E x \in repairs : x.appliance_id = 1
    /\ ~\E x \in attachments : x.appliance_id = 1
    /\ {x.id : x \in appliances} = {2, 101}
    /\ {x.id : x \in repairs} = {6, 102}
    /\ {x.id : x \in attachments} = {12, 111}

\* C15: no step is a call of soft_delete_appliance, restore_appliance,
\* permanent_delete_appliance, soft_delete_room, restore_room or
\* permanent_delete_room by a user who does not own the house of the named
\* row and changes a row of a table.
C15_NonOwnerCallChangesNothing ==
    [][\A u \in Users :
          /\ \A a \in ApplianceKeys :
                /\ ~OwnsAppliance(u, a)
                /\ \/ soft_delete_appliance(u, a)
                   \/ restore_appliance(u, a)
                   \/ permanent_delete_appliance(u, a)
                => UNCHANGED <<appliances, repairs, attachments>>
          /\ \A r \in RoomKeys :
                /\ ~\E x \in rooms : x.id = r /\ OwnsHouse(u, x.house_id)
                /\ \/ soft_delete_room(u, r)
                   \/ restore_room(u, r)
                   \/ permanent_delete_room(u, r)
                => UNCHANGED rooms]_vars

\* C16: the account page calls delete_user_account only when the typed text
\* is 'DELETE'; when a call by the signed-in user has been answered, no house
\* of the user, no child row of such a house and no auth user of that id
\* remains, and the rows of every other user are as they were; a call with no
\* authenticated user raises and changes nothing.
C16_AccountDeletedAndOnlyThat ==
    [][/\ delete_user_account(None).error # None
       /\ delete_user_account(None).tables = Tables
       /\ account'.rpcCalls > account.rpcCalls =>
             /\ account.deleteConfirmText = "DELETE"
             /\ SessionUser \notin users'
             /\ ~\E x \in houses' : x.user_id = SessionUser
             /\ ~\E x \in rooms' \cup appliances' \cup features' \cup maintenance' :
                    x.house_id = "H1"
             /\ ~\E x \in repairs' \cup attachments' : x.appliance_id \in {1, 2}
             /\ Tables' = WithoutUser(SessionUser)]_vars

-----------------------------------------------------------------------------
(* Properties of the file upload *)

\* The files of the pending list, of the calls in flight and of the store
\* are within the size limit.
WithinSizeLimit ==
    /\ \A k \in 1..Len(uploadedFiles) : uploadedFiles[k].size <= maxSize
    /\ \A s \in 1..Len(fileUpload.selections) :
          LET sel == fileUpload.selections[s]
          IN  /\ \A k \in 1..Len(sel.uploaded) : sel.uploaded[k].size <= maxSize
              /\ sel.pc = "converting" => sel.files[sel.next].size <= maxSize
    /\ \A x \in attachments : x.file_size <= maxSize

\* A selection over the cap is rejected as a whole; a file over the size
\* limit that the loop of an accepted selection comes to is skipped with the
\* size error.
SelectionChecked ==
    /\ \A sizes \in FileLists :
          handleFileSelect(sizes) =>
              IF Len(uploadedFiles) + Len(sizes) > maxFiles
                THEN /\ fileUpload'.error = TooManyFiles
                     /\ fileUpload'.selections[Len(fileUpload'.selections)].pc = "rejected"
                     /\ UNCHANGED <<uploadedFiles, handed, attachments>>
                ELSE sizes[1] > maxSize =>
                     /\ fileUpload'.error = FileTooLarge
                     /\ LET call == fileUpload'.selections[Len(fileUpload'.selections)]
                        IN  call.pc = "converting" => call.next > 1
    /\ \A s \in 1..Len(fileUpload.selections) :
          ConversionDone(s) \/ ConversionFailed(s) =>
              LET sel == fileUpload.selections[s]
              IN  sel.next < Len(sel.files) /\ sel.files[sel.next + 1].size > maxSize =>
                     /\ fileUpload.mounted => fileUpload'.error = FileTooLarge
                     /\ fileUpload'.selections[s].pc = "converting" =>
                            fileUpload'.selections[s].next > sel.next + 1
                     /\ \A k \in 1..Len(uploadedFiles') :
                            uploadedFiles'[k].id # sel.files[sel.next + 1].id

\* C17: handleFileSelect rejects as a whole, with the maximum-files error, a
\* selection that brings the pending count over maxFiles, and passes none of
\* its files on; in an accepted selection a file over maxSizeMB MB is skipped
\* with the size error; no file over the limit is in the pending list, in a
\* call's converted files or in appliance_attachments.
C17_OverCapRejectedOversizeSkipped == []WithinSizeLimit /\ [][SelectionChecked]_vars

\* Of a first selection the file at the limit was converted and the file over
\* it skipped; a second selection, over the cap, was rejected; the form was
\* saved and the one file is in appliance_attachments.
C17_Witness ==
    /\ ~fileUpload.mounted
    /\ fileUpload.picked = 4
    /\ \E s \in 1..Len(fileUpload.selections) : fileUpload.selections[s].pc = "rejected"
    /\ \E x \in attachments : x.appliance_id = 1 /\ x.file_size = maxSize
    /\ Cardinality({x \in attachments : x.appliance_id = 1}) = 1

\* The pending list is within the cap.
WithinCap == Len(uploadedFiles) <= maxFiles

\* C18: the pending list never holds more than maxFiles files, and every file
\* handed to onFilesSelected that the user has not removed (and that no save
\* has sent) is in the list.
C18_CapHoldsAndNoAcceptedFileLost ==
    /\ WithinCap
    /\ \A id \in handed : \E k \in 1..Len(uploadedFiles) : uploadedFiles[k].id = id

-----------------------------------------------------------------------------
(* Properties of the record forms *)

\* The fields the rows of a table need.
Needs(table) ==
    CASE table = "appliance_repairs" -> {"repair_date", "description"}
      [] table = "exterior_maintenance" ->
            {"maintenance_type", "maintenance_date", "description"}
      [] table = "exterior_features" -> {"feature_type", "description"}
      [] table = "interior_appliances" -> {"appliance_type"}
      [] table = "rooms" -> {"room_type"}

\* C19: every insert and every update the forms issued carries a value, not
\* the empty string, for each required field of its table: date and
\* description of a repair, type, date and description of a maintenance
\* record, type and description of a feature, type of an appliance, room type
\* of a room.
C19_NoSaveWithMissingRequiredField ==
    \A r \in issued :
        \A f \in Needs(r.table) :
            /\ f \in DOMAIN r.fields
            /\ r.fields[f] # None
            /\ r.fields[f][1] # ""

\* A repair and a maintenance record were saved from complete forms, and the
\* feature form is open with a type and a cleared description: its button is
\* disabled.
C19_Witness ==
    /\ \E r \in issued : r.table = "appliance_repairs" /\ r.op = "insert"
    /\ \E r \in issued : r.table = "exterior_maintenance" /\ r.op = "insert"
    /\ form.kind = "feature"
    /\ form.fields["feature_type"] = Some("x")
    /\ form.fields["description"] = Some("")
    /\ Disabled(form)

-----------------------------------------------------------------------------
(* Properties of the delete confirmation *)

\* The ids of the rows of an item type in the store.
RowIds(type) ==
    CASE type = "room" -> {x.id : x \in rooms}
      [] type = "appliance" -> {x.id : x \in appliances}
      [] type = "attachment" -> {x.id : x \in attachments}
      [] type = "repair" -> {x.id : x \in repairs}
      [] type = "feature" -> {x.id : x \in features}
      [] type = "maintenance" -> {x.id : x \in maintenance}

RowsKept == UNCHANGED <<houses, rooms, appliances, repairs, attachments, features,
                        maintenance>>

\* The flag is set by a confirmed delete with the box checked, and once set
\* it stays set and shouldShowDeleteConfirmation() is false.
FlagSetAndKept ==
    /\ (handleConfirm /\ modal.dontShowAgain) => storage' = Some("true")
    /\ storage # storage' => handleConfirm /\ modal.dontShowAgain
    /\ storage = Some("true") =>
            storage' = Some("true") /\ ~shouldShowDeleteConfirmation'

\* With the flag set a delete click on a row of any type deletes the row and
\* opens no modal; without it the click opens the modal for that row and
\* deletes nothing.
ClickByFlag ==
    \A type \in DeleteTypes, id \in DeleteKeys :
        handleDeleteClick(type, id) =>
            IF storage = Some("true")
              THEN ~modal'.isOpen /\ id \notin RowIds(type)'
              ELSE /\ modal'.isOpen
                   /\ modal'.type = Some(type)
                   /\ modal'.id = Some(id)
                   /\ RowsKept

\* Without the flag rows go only when the open modal is confirmed.
DeletedOnlyWhenConfirmed ==
    (storage # Some("true") /\ ~RowsKept) => (modal.isOpen /\ handleConfirm)

\* C20: the suppression flag has no expiry and no scope: after a delete
\* confirmed with "Don't show this warning again" checked,
\* shouldShowDeleteConfirmation() is false in every later state, a page reload
\* included, and a delete click on a room, appliance, attachment, repair,
\* feature or maintenance record deletes it without the modal; no step clears
\* the flag.  Until then a delete click opens the modal and nothing is deleted
\* before the confirmation.
C20_FlagSuppressesEveryLaterConfirmation ==
    /\ [](storage \in {None, Some("true")})
    /\ [][FlagSetAndKept /\ ClickByFlag /\ DeletedOnlyWhenConfirmed]_vars

\* The flag is set and the page was loaded again after that (the box of the
\* new modal is unchecked); a room, a repair and a feature are gone, while
\* only one delete was confirmed before the flag was set.
C20_Witness ==
    /\ storage = Some("true")
    /\ modal = NoModal
    /\ 21 \notin RowIds("room")
    /\ 4 \notin RowIds("repair")
    /\ 7 \notin RowIds("feature")
    /\ 9 \notin RowIds("maintenance")
    /\ 11 \notin RowIds("attachment")
    /\ 2 \notin RowIds("appliance")

-----------------------------------------------------------------------------
(* Properties of the library functions *)

\* The currency entry of a recognized country: code, symbol ($, C$, MX$, the
\* pound sign U+00A3) and locale.
CurrencyOf(country) ==
    CASE country = "United States" -> [code |-> "USD", symbol |-> <<36>>, locale |-> "en-US"]
      [] country = "Canada" -> [code |-> "CAD", symbol |-> <<67, 36>>, locale |-> "en-CA"]
      [] country = "Mexico" -> [code |-> "MXN", symbol |-> <<77, 88, 36>>, locale |-> "es-MX"]
      [] country = "United Kingdom" -> [code |-> "GBP", symbol |-> <<163>>, locale |-> "en-GB"]
      [] country = "Other" -> [code |-> "USD", symbol |-> <<36>>, locale |-> "en-US"]

Recognized == {"United States", "Canada", "Mexico", "United Kingdom", "Other"}

\* The entry a recognized, null or undefined country stands for.
EntryOf(country) == IF country = None THEN "United States" ELSE country[1]

\* C21: for United States, Canada, Mexico, United Kingdom and Other, and for
\* a null or undefined country (the United States entry), getCurrencySymbol
\* returns the symbol $, C$, MX$, the pound sign, $, and formatCurrency
\* formats with the code and locale USD/en-US, CAD/en-CA, MXN/es-MX,
\* GBP/en-GB, USD/en-US.
C21_CurrencyOfCountry ==
    LET country == applied.args[IF applied.fn = "formatCurrency" THEN 2 ELSE 1]
    IN  /\ (applied.fn = "getCurrencySymbol"
                /\ (country = None \/ country[1] \in Recognized)) =>
            applied.result = Gave(Some(CurrencyOf(EntryOf(country)).symbol))
        /\ (applied.fn = "formatCurrency"
                /\ (country = None \/ country[1] \in Recognized)
                /\ applied.result.threw = None) =>
            /\ applied.result.value[1].currency = CurrencyOf(EntryOf(country)).code
            /\ applied.result.value[1].locale = CurrencyOf(EntryOf(country)).locale

\* C22: for a country that is a string other than the five selectors,
\* getCurrencySymbol returns $ and formatCurrency formats with USD and en-US,
\* and neither throws.
C22_UnrecognizedCountryFallsBack ==
    LET country == applied.args[IF applied.fn = "formatCurrency" THEN 2 ELSE 1]
        options == applied.args[3]
    IN  /\ (applied.fn = "getCurrencySymbol"
                /\ country # None /\ country[1] \notin Recognized) =>
            applied.result = Gave(Some(<<36>>))
        /\ (applied.fn = "formatCurrency"
                /\ country # None /\ country[1] \notin Recognized
                /\ options.minimumFractionDigits = None) =>
            /\ applied.result.threw = None
            /\ applied.result.value[1].currency = "USD"
            /\ applied.result.value[1].locale = "en-US"

\* The position of the last space of a name, 0 without one.
LastSpace(name) ==
    IF \E i \in 1..Len(name) : name[i] = " "
      THEN CHOOSE i \in 1..Len(name) :
                name[i] = " " /\ \A j \in (i + 1)..Len(name) : name[j] # " "
      ELSE 0

\* A word ends in one of the endings.
EndsIn(w, endings) ==
    \E e \in endings : Len(e) <= Len(w) /\ \A i \in 1..Len(e) : w[Len(w) - Len(e) + i] = e[i]

\* The plural of a final word: y in either case gives the word without its
\* last letter and ies; ch, sh, s, x, z in either case give es; else s.
PluralOf(w) ==
    IF EndsIn(w, {<<"y">>, <<"Y">>})
      THEN [i \in 1..(Len(w) - 1) |-> w[i]] \o <<"i", "e", "s">>
    ELSE IF EndsIn(w, {<<c, h>> : c \in {"c", "C", "s", "S"}, h \in {"h", "H"}}
                        \cup {<<"s">>, <<"S">>, <<"x">>, <<"X">>, <<"z">>, <<"Z">>})
      THEN w \o <<"e", "s">>
    ELSE w \o <<"s">>

\* C23: pluralizeRoomType(name, count) is name for count <= 1; for count > 1
\* it is name up to its last space, unchanged, followed by the plural of the
\* final word: without the last letter and with ies after y, with es after
\* ch, sh, s, x, z, with s otherwise, the ending tested in either case and
\* the stem as written.  Bedroom, 2 gives Bedrooms; Living Room, 3 gives
\* Living Rooms; Family, 2 gives Families; Patio, 2 gives Patios; Bench, 2
\* gives Benches.
C23_PluralOfFinalWord ==
    applied.fn = "pluralizeRoomType" =>
        LET name == applied.args[1]
            count == applied.args[2]
            k == LastSpace(name)
        IN  /\ applied.result.threw = None
            /\ applied.result.value # None
            /\ count <= 1 => applied.result.value[1] = name
            /\ count > 1 =>
                    applied.result.value[1] =
                        SubSeq(name, 1, k) \o PluralOf(SubSeq(name, k + 1, Len(name)))
            /\ (count = 2 /\ name = <<"B", "e", "d", "r", "o", "o", "m">>) =>
                    applied.result.value[1] = <<"B", "e", "d", "r", "o", "o", "m", "s">>
            /\ (count = 3 /\ name = <<"L", "i", "v", "i", "n", "g", " ", "R", "o", "o", "m">>) =>
                    applied.result.value[1] =
                        <<"L", "i", "v", "i", "n", "g", " ", "R", "o", "o", "m", "s">>
            /\ (count = 2 /\ name = <<"F", "a", "m", "i", "l", "y">>) =>
                    applied.result.value[1] = <<"F", "a", "m", "i", "l", "i", "e", "s">>
            /\ (count = 2 /\ name = <<"P", "a", "t", "i", "o">>) =>
                    applied.result.value[1] = <<"P", "a", "t", "i", "o", "s">>
            /\ (count = 2 /\ name = <<"B", "e", "n", "c", "h">>) =>
                    applied.result.value[1] = <<"B", "e", "n", "c", "h", "e", "s">>

\* Of a name of two words the second, a capital Y, became ies and the first
\* stayed.
C23_Witness ==
    /\ applied.fn = "pluralizeRoomType"
    /\ applied.args = << <<"a", " ", "Y">>, 2 >>
    /\ applied.result.value = Some(<<"a", " ", "i", "e", "s">>)

-----------------------------------------------------------------------------
(* Properties of the navigation *)

\* The view changes from an editor to the dashboard.
BackToDashboard == dash.currentView # "dashboard" /\ dash'.currentView = "dashboard"

\* The refresh key goes up by one exactly when the view changes to the
\* dashboard, and the CostDashboard mounted then is a new instance, loading,
\* with its effect due and no call of its own yet.
RefreshedOnReturn ==
    /\ BackToDashboard =>
            /\ dash'.dashboardRefreshKey = dash.dashboardRefreshKey + 1
            /\ cd'.inst # 0
            /\ cd'.inst # cd.inst
            /\ cd'.effect
            /\ cd'.loading
            /\ cd'.shown = 0
            /\ \A c \in 1..Len(calls') : calls'[c].inst # cd'.inst
    /\ ~BackToDashboard => dash'.dashboardRefreshKey = dash.dashboardRefreshKey

\* The effect of the mounted CostDashboard runs.
EffectRan == cd.effect /\ ~cd'.effect /\ cd'.inst = cd.inst

\* The effect of the mounted CostDashboard starts a loadCosts call for the
\* house, all its reads still to be answered.
StartsLoadCosts ==
    /\ Len(calls') = Len(calls) + 1
    /\ calls'[Len(calls')].inst = cd.inst
    /\ calls'[Len(calls')].house = houseId
    /\ \A q \in ReadNames : calls'[Len(calls')].res[q].st = "pending"

\* The breakdown that is shown was stored by a call of the mounted instance.
ShownIsOfMounted ==
    cd.shown # 0 => cd.shown \in CallIds /\ calls[cd.shown].inst = cd.inst

CurrentViewUnsaved ==
    CASE dash.currentView = "house" -> dash.hasUnsavedHouse
      [] dash.currentView = "interior" -> dash.hasUnsavedInterior
      [] dash.currentView = "exterior" -> dash.hasUnsavedExterior
      [] dash.currentView = "account" -> dash.hasUnsavedAccount
      [] OTHER -> FALSE

NoFlagSet(d) ==
    /\ ~d.hasUnsavedHouse
    /\ ~d.hasUnsavedInterior
    /\ ~d.hasUnsavedExterior
    /\ ~d.hasUnsavedAccount

\* C25: handleNavigate with the current view's unsaved flag set and the
\* confirmation declined leaves currentView, the four flags and
\* dashboardRefreshKey as they were; with the confirmation accepted, or no
\* flag set for the current view, and a target other than the current view,
\* currentView is the target and the four flags are false after it.
C25_NavigationGuard ==
    [][\A view \in Views, confirmLeave \in BOOLEAN :
        HandleNavigate(view, confirmLeave) =>
            /\ (CurrentViewUnsaved /\ ~confirmLeave) =>
                    /\ dash'.currentView = dash.currentView
                    /\ dash'.hasUnsavedHouse = dash.hasUnsavedHouse
                    /\ dash'.hasUnsavedInterior = dash.hasUnsavedInterior
                    /\ dash'.hasUnsavedExterior = dash.hasUnsavedExterior
                    /\ dash'.hasUnsavedAccount = dash.hasUnsavedAccount
                    /\ dash'.dashboardRefreshKey = dash.dashboardRefreshKey
            /\ ((confirmLeave \/ ~CurrentViewUnsaved) /\ view # dash.currentView) =>
                    /\ dash'.currentView = view
                    /\ NoFlagSet(dash')]_vars

\* The interior editor was navigated to and reports unsaved changes: the
\* next navigation asks.
C25_Witness ==
    /\ dash.currentView = "interior"
    /\ dash.hasUnsavedInterior
    /\ ~dash.hasUnsavedHouse

-----------------------------------------------------------------------------
(* Properties of the house form *)

\* The houses of the session's user that are not deleted.
ActiveHouses == {x \in houses : x.user_id = SessionUser /\ ~x.deleted}

\* C26: the user has at most one house that is not deleted, and saveHouse
\* inserts a house only when the user has none.
C26_AtMostOneActiveHouse ==
    /\ [](Cardinality(ActiveHouses) <= 1)
    /\ [][\A s \in 1..MaxSaves : HouseInserted(s) => ActiveHouses = {}]_vars

-----------------------------------------------------------------------------
(* Properties of the editors' lists *)

\* The ids an editor displays of an item type: the list, and of repairs and
\* attachments those under an appliance of the appliance list.
Displayed(type) ==
    CASE type = "repair" ->
            {x.id : x \in {y \in StoreRepairs :
                            y.id \in lists[type] /\ y.appliance_id \in lists["appliance"]}}
      [] type = "attachment" ->
            {x.id : x \in {y \in StoreAttachments :
                            y.id \in lists[type] /\ y.appliance_id \in lists["appliance"]}}
      [] OTHER -> lists[type]

\* C27: once the delete operations of an editor have all completed, no
\* displayed list holds an item that is gone from the store: every displayed
\* id of an item type is the id of a row of the house still in the store.
C27_DeletedItemsLeaveTheList ==
    deleting = {} => \A type \in DeleteTypes : Displayed(type) \subseteq Listed(type)

-----------------------------------------------------------------------------
(* Properties of the appliance form's save *)

\* C28: a saveAppliance call for a new appliance that ends in its error path
\* has inserted no appliance row.
C28_FailedSaveInsertsNoAppliance ==
    [][\A in \in ApplianceInputs, at \in SaveRequests :
          saveApplianceFailed(in, at) => appliances' = appliances]_vars

-----------------------------------------------------------------------------
(* Properties of the room edit form *)

\* The room of the list and the row of the store agree on the edit form's
\* fields.
SameRoom(id) ==
    \A r \in roomEditor.rooms, x \in rooms :
        r.id = id /\ x.id = id => \A f \in RoomFields : r[f] = x[f]

\* C29: after saveEditedRoom succeeds, the room of the list equals the stored
\* row on room_type, room_type_other, count, notes, basement_details and
\* garage_details; after it fails, the list and the editing state are as
\* before.
C29_EditedRoomShownAsStored ==
    [][/\ \A id \in RoomKeys :
            roomEditor.editingRoomId = Some(id) /\ roomUpdated => SameRoom(id)'
       /\ roomUpdateFailed => roomEditor' = roomEditor]_vars

-----------------------------------------------------------------------------
(* Properties of the trash procedures *)

\* The appliance a, its repairs and its attachments in the tables t.
FamilyOf(t, a) ==
    [appliances |-> {x \in t.appliances : x.id = a},
     repairs |-> {x \in t.repairs : x.appliance_id = a},
     attachments |-> {x \in t.attachments : x.appliance_id = a}]

AllDeleted(family) ==
    \A x \in family.appliances \cup family.repairs \cup family.attachments : x.deleted

\* C30: soft_delete_appliance by the owner of an active appliance marks the
\* appliance and all its repairs and attachments as deleted, and
\* restore_appliance by the owner right after it gives the appliance and each
\* repair and attachment the status it had before the soft delete; a second
\* soft_delete_appliance or soft_delete_room changes nothing.
C30_SoftDeleteCascadeAndItsInverse ==
    \A u \in Users :
        /\ \A x \in appliances :
                OwnsHouse(u, x.house_id) /\ ~x.deleted =>
                    LET gone == SoftDeletedAppliance(Tables, u, x.id)
                    IN  /\ AllDeleted(FamilyOf(gone, x.id))
                        /\ FamilyOf(RestoredAppliance(gone, u, x.id), x.id) =
                                FamilyOf(Tables, x.id)
                        /\ SoftDeletedAppliance(gone, u, x.id) = gone
        /\ \A r \in rooms :
                LET gone == SoftDeletedRoom(Tables, u, r.id)
                IN  SoftDeletedRoom(gone, u, r.id) = gone

====
